---- MODULE Spec2Model ----
(***************************************************************************)
(* Model of the client-side sandbox orchestrator of agent-code-ui:         *)
(* WebContainerManager (lifecycle state machine), OPFSStorage (snapshot    *)
(* store), PerformanceMonitor (metrics collector) and the dependency-      *)
(* change detector of utils.ts.                                            *)
(*                                                                         *)
(* The sandbox runtime (@webcontainer/api) is an external collaborator: it *)
(* is modelled by its interface only (boot, mount, spawn, exit, export,    *)
(* 'server-ready' and 'error' notifications); every outcome it can produce *)
(* is a nondeterministic choice of the environment.                        *)
(***************************************************************************)
EXTENDS Integers, Sequences, FiniteSets, TLC

(***************************************************************************)
(* Bounds of the model.                                                    *)
(***************************************************************************)
MaxOps == 2            \* lifecycle operations the caller issues
MaxJobs == 1           \* snapshot saves in flight at the same time
MaxTasks == 2          \* operations that may be in flight at the same time
MaxBoots == 2          \* runtime boots in flight or live at the same time
MaxProcs == 3          \* processes alive in the runtime at the same time

Null == 0              \* null reference (container, process, url, promise)

TaskIds == 1 .. MaxTasks
BootIds == 1 .. MaxBoots
ProcIds == 1 .. MaxProcs

(***************************************************************************)
(* File trees.  A package.json text is a record: kind "json" carries the   *)
(* two dependency objects as the serialised key/version pairs IN FILE      *)
(* ORDER, kind "bad" is text that JSON.parse rejects, kind "empty" is ''.  *)
(* DepNames lists the dependency names in the order of                     *)
(* Object.keys(..).sort().                                                 *)
(***************************************************************************)
DepNames == <<"lodash", "react", "vite">>

Rank(name) == CHOOSE i \in DOMAIN DepNames : DepNames[i] = name

NoFile == [kind |-> "nofile"]
EmptyText == [kind |-> "empty"]
BadJson == [kind |-> "bad"]

Json(deps, dev) == [kind |-> "json", deps |-> deps, dev |-> dev]

PkgA == Json(<< <<"react", 18>> >>, << <<"vite", 5>> >>)
PkgB == Json(<< <<"react", 18>>, <<"lodash", 4>> >>, << <<"vite", 5>> >>)

Tree(pkg, src) == [pkg |-> pkg, src |-> src]

NoTree == [pkg |-> NoFile, src |-> 0]   \* stands for null / an empty file system

TreeA1 == Tree(PkgA, 1)
TreeA2 == Tree(PkgA, 2)       \* same manifest, other source files
TreeB1 == Tree(PkgB, 1)       \* manifest with an added dependency
Trees == {TreeA1, TreeB1}

Projects == {"p1"}
NoProject == "none"

\* utils.ts extractPackageJson: the manifest text, or null when the file is
\* missing or its contents are falsy (the empty string).
NullText == [kind |-> "null"]

extractPackageJson(tree) ==
  IF tree.pkg.kind \in {"nofile", "empty"} THEN NullText ELSE tree.pkg

\* `extractPackageJson(tree) || ''`
PackageJsonOrEmpty(tree) ==
  IF extractPackageJson(tree) = NullText THEN EmptyText ELSE tree.pkg

\* utils.ts sha256Hash: a digest of the text; distinct texts have distinct
\* digests, the digest itself is not the text.
sha256Hash(text) == <<"sha256", text>>

\* JSON.parse of an object literal: a key keeps the position of its first
\* occurrence and the value of its last one.
RECURSIVE ParseObject(_)
ParseObject(pairs) ==
  IF pairs = <<>> THEN <<>>
  ELSE LET front == ParseObject(SubSeq(pairs, 1, Len(pairs) - 1))
           last == pairs[Len(pairs)]
       IN  IF \E i \in DOMAIN front : front[i][1] = last[1]
           THEN [i \in DOMAIN front |->
                   IF front[i][1] = last[1] THEN last ELSE front[i]]
           ELSE Append(front, last)

\* utils.ts parseDependencies
parseDependencies(text) ==
  IF text.kind = "json"
  THEN [dependencies |-> ParseObject(text.deps),
        devDependencies |-> ParseObject(text.dev)]
  ELSE [dependencies |-> <<>>, devDependencies |-> <<>>]

\* Array.prototype.sort() of a list of distinct keys
SortKeys_Unsorted(keys) == keys

RECURSIVE SortKeys(_)
SortKeys(keys) ==
  IF keys = <<>> THEN <<>>
  ELSE LET m == CHOOSE i \in DOMAIN keys :
                  \A j \in DOMAIN keys : Rank(keys[i]) <= Rank(keys[j])
       IN  <<keys[m]>> \o SortKeys([k \in 1 .. Len(keys) - 1 |->
                                     IF k < m THEN keys[k] ELSE keys[k + 1]])

\* Object.keys(obj): the keys in insertion order
KeysOf(obj) == [i \in DOMAIN obj |-> obj[i][1]]

Lookup(obj, k) == (CHOOSE i \in DOMAIN obj : obj[i][1] = k)

\* deps[key]
ValueOf_Ignored(obj, k) == 0

ValueOf(obj, k) == obj[Lookup(obj, k)][2]

\* utils.ts compareDependencies
compareDependencies(deps1, deps2) ==
  LET keys1 == SortKeys(KeysOf(deps1))
      keys2 == SortKeys(KeysOf(deps2))
  IN  IF Len(keys1) # Len(keys2) THEN FALSE
      ELSE \A i \in 1 .. Len(keys1) :
             ~ (keys1[i] # keys2[i]
                \/ ValueOf(deps1, keys1[i]) # ValueOf(deps2, keys2[i]))

\* utils.ts hasDependencyChanged (oldTree may be null)
hasDependencyChanged(oldTree, newTree) ==
  IF oldTree = NoTree THEN TRUE
  ELSE LET oldPkg == extractPackageJson(oldTree)
           newPkg == extractPackageJson(newTree)
       IN  IF oldPkg = NullText \/ newPkg = NullText THEN TRUE
           ELSE LET oldDeps == parseDependencies(oldPkg)
                    newDeps == parseDependencies(newPkg)
                IN  ~ compareDependencies(oldDeps.dependencies, newDeps.dependencies)
                    \/ ~ compareDependencies(oldDeps.devDependencies, newDeps.devDependencies)


(***************************************************************************)
(* State.                                                                  *)
(***************************************************************************)
VARIABLES
  \* WebContainerManager fields
  container,         \* this.container: the runtime instance held, or Null
  bootPromise,       \* this.bootPromise: the memoized boot, or Null
  status,            \* this.status
  devProcess,        \* this.devProcess
  serverUrl,         \* this.serverUrl
  currentTree,       \* this.currentTree (NoTree for null)
  currentProjectId,  \* this.currentProjectId (NoProject for null)
  \* PerformanceMonitor fields
  timers,            \* names of the started timers
  currentMetrics,    \* Partial<BootMetrics>: a function on the recorded fields
  metrics,           \* history of finished BootMetrics
  \* OPFSStorage
  supported,         \* OPFS available in this browser
  store,             \* per project: directory, snapshot.bin, metadata.json
  \* sandbox runtime (external)
  boots,             \* per runtime boot: none, pending, live
  fs,                \* per runtime instance: mounted tree and installed modules
  procs,             \* per process: kind, instance, state
  readyListeners,    \* per instance: 'server-ready' listeners registered on it
  \* callers
  tasks,             \* the operations in flight or settled, one per slot
  jobs,              \* fire-and-forget snapshot saves in flight
  nOps,              \* operations issued so far
  overlap,           \* whether the caller issues overlapping operations
  \* observation
  trace,             \* events since the last operation was issued
  nBootRecorded,     \* number of boot durations recorded
  destroyed,         \* whether destroy() has been called
  saveOutcome,       \* outcome of the most recent snapshot save
  \* direct use of the dependency-change detector and of the snapshot store
  detector,          \* a call of hasDependencyChanged: arguments and result
  call,              \* the OPFSStorage call in progress or last returned
  roundTrip,         \* per project: what the last completed save wrote
  \* direct use of the performance monitor and of the output filter
  mon,               \* PerformanceMonitor calls: what was recorded and returned
  strip              \* a call of appendOutput: the raw text and the emitted text

vars == <<container, bootPromise, status, devProcess, serverUrl, currentTree,
          currentProjectId, timers, currentMetrics, metrics, supported, store,
          boots, fs, procs, readyListeners, tasks, jobs, nOps, overlap, trace,
          nBootRecorded, destroyed, saveOutcome, detector, call, roundTrip,
          mon, strip>>

apiVars == <<mon, strip>>
auxVars == <<detector, call, roundTrip, apiVars>>

mgrVars == <<container, bootPromise, status, devProcess, serverUrl, currentTree,
             currentProjectId>>
monVars == <<timers, currentMetrics, metrics>>
rtVars == <<boots, fs, procs, readyListeners>>

\* OPFSStorage.ts DEFAULT_OPFS_CONFIG.maxCacheAge (7 days), in units of the
\* ageing step of the model.
MaxCacheAge == 1

\* Math.round(performance.now() - startTime) of a started timer
Elapsed == {1}

NoImage == [tree |-> NoTree, modules |-> NoFile]
NoMeta == [present |-> FALSE]
NoEntry == [exists |-> FALSE, hasImg |-> FALSE, img |-> NoImage, meta |-> NoMeta]

\* A process slot; the slot of a process that exited or was killed is free.
NoProc == [kind |-> "none", inst |-> Null, state |-> "none"]

\* No call of the detector or of the store has been made directly.
NoDetectorCall == [prev |-> NoTree, next |-> NoTree, out |-> "none"]
NoHash == <<"sha256", [kind |-> "undefined"]>>     \* expectedHash not supplied
NoCall == [op |-> "none", proj |-> NoProject, inst |-> Null, hash |-> NoHash,
           stage |-> "idle", tries |-> 0, img |-> NoImage, verdict |-> "none",
           result |-> "none", listed |-> {}, turn |-> FALSE,
           exported |-> "none", count |-> 0]
NoRoundTrip == [saved |-> FALSE]

\* No call of the monitor or of appendOutput has been made directly.
NoMon == [calls |-> 0, since |-> <<>>, returned |-> <<>>]
NoStrip == [raw |-> <<>>, out |-> <<>>, done |-> FALSE]

IdleTask == [op |-> "none", fn |-> "idle", stage |-> "idle", tree |-> NoTree,
             proj |-> NoProject, c |-> Null, wb |-> Null, force |-> FALSE,
             didInstall |-> FALSE, proc |-> Null, hash |-> sha256Hash(EmptyText),
             viaCache |-> FALSE, restoreFailed |-> FALSE,
             status0 |-> "idle", tree0 |-> NoTree,
             res |-> "none", val |-> Null, err |-> "none"]

InFlight(t) == tasks[t].op # "none" /\ tasks[t].res = "none"

\* The orchestrator, its collaborators and its callers after construction.
InitManager ==
  /\ container = Null
  /\ bootPromise = Null
  /\ status = "idle"
  /\ devProcess = Null
  /\ serverUrl = Null
  /\ currentTree = NoTree
  /\ currentProjectId = NoProject
  /\ timers = {}
  /\ currentMetrics = <<>>
  /\ metrics = <<>>
  /\ supported \in BOOLEAN
  /\ store = [p \in Projects |-> NoEntry]
  /\ boots = [b \in BootIds |-> "none"]
  /\ fs = [b \in BootIds |-> NoImage]
  /\ procs = [p \in ProcIds |-> NoProc]
  /\ readyListeners = [b \in BootIds |-> <<>>]
  /\ tasks = [t \in TaskIds |-> IdleTask]
  /\ jobs = <<>>
  /\ nOps = 0
  /\ trace = <<>>
  /\ nBootRecorded = 0
  /\ destroyed = FALSE
  /\ saveOutcome = "none"

Init ==
  /\ InitManager
  /\ overlap = FALSE
  /\ mon = NoMon
  /\ strip = NoStrip
  /\ detector = NoDetectorCall
  /\ call = NoCall
  /\ roundTrip = [p \in Projects |-> NoRoundTrip]

(***************************************************************************)
(* Helpers shared by the operations.                                       *)
(***************************************************************************)
\* WebContainerManager.setStatus: the event is emitted only on a change.
StatusEvents_Always(old, new) == << <<"status", new>> >>

StatusEvents(old, new) == IF old # new THEN << <<"status", new>> >> ELSE <<>>

\* PerformanceMonitor.record*: set one field of currentMetrics.
Record(m, field, value) ==
  [k \in (DOMAIN m) \cup {field} |-> IF k = field THEN value ELSE m[k]]

Recorded(m, field, default) == IF field \in DOMAIN m THEN m[field] ELSE default

\* PerformanceMonitor.endTimer: the durations it can return.
endTimer(name) == IF name \in timers THEN Elapsed ELSE {0}

\* PerformanceMonitor.finishMetrics: the BootMetrics assembled from m.
finishMetrics(m) ==
  LET bootTime == Recorded(m, "bootTime", 0)
      mountTime == Recorded(m, "mountTime", 0)
      installTime == Recorded(m, "installTime", 0)
      serverReadyTime == Recorded(m, "serverReadyTime", 0)
  IN  [bootTime |-> bootTime, mountTime |-> mountTime,
       installTime |-> installTime, serverReadyTime |-> serverReadyTime,
       totalTime |-> bootTime + mountTime + installTime + serverReadyTime,
       cacheHit |-> Recorded(m, "cacheHit", FALSE)]

FreeBoots == {b \in BootIds : boots[b] = "none"}
FreeProcs == {p \in ProcIds : procs[p].state = "none"}
NextBoot == CHOOSE b \in FreeBoots : \A x \in FreeBoots : b <= x
NextProc == CHOOSE p \in FreeProcs : \A x \in FreeProcs : p <= x

\* JavaScript runs to completion: the continuation of a settled await is a
\* microtask and runs before the next event of the runtime, of the storage or
\* of the caller is handled.  Runnable(t) says that task t has such a
\* continuation pending; events wait until no task is runnable.
Runnable(t) ==
  /\ InFlight(t)
  /\ \/ tasks[t].stage \in {"boot", "go", "resolved", "wbfail"}
     \/ tasks[t].stage = "wb" /\ boots[tasks[t].wb] = "live"

Quiet == \A t \in TaskIds : ~ Runnable(t)

\* The slot a new operation takes: the lowest one that is not in flight.
FreeSlot(t) == ~ InFlight(t) /\ \A u \in TaskIds : u < t => InFlight(u)

\* The caller does not overlap operations unless `overlap` is set, and
\* leaves room for the snapshot save the operation may schedule and for the
\* boot it may need.
CanCall(t) ==
  /\ Quiet
  /\ nOps < MaxOps
  /\ Len(jobs) + Cardinality({u \in TaskIds : InFlight(u)}) < MaxJobs
  /\ FreeSlot(t)
  /\ container # Null \/ FreeBoots # {}
  /\ overlap \/ \A u \in TaskIds : ~ InFlight(u)

NewTrace == IF \E u \in TaskIds : InFlight(u) THEN trace ELSE <<>>

\* The record of a newly issued operation; status0 and tree0 remember the
\* status and the current tree the operation found.
StartTask(op, tree, proj) ==
  [IdleTask EXCEPT !.op = op, !.tree = tree, !.proj = proj,
                   !.status0 = status, !.tree0 = currentTree]


\* How an operation reports a failure: updateAndRefresh catches it and
\* returns false, every other operation rejects.
Fail_Throws(task, reason) ==
  [task EXCEPT !.fn = "done", !.stage = "done", !.res = "rejected", !.err = reason]

Fail(task, reason) ==
  IF task.op = "updateAndRefresh"
  THEN [task EXCEPT !.fn = "done", !.stage = "done", !.res = "false", !.err = reason]
  ELSE [task EXCEPT !.fn = "done", !.stage = "done", !.res = "rejected", !.err = reason]

\* A function of the orchestrator is entered; it starts with
\* `await this.boot()`, which returns the held instance when there is one.
Enter(task, fn, held) ==
  IF held # Null
  THEN [task EXCEPT !.fn = fn, !.stage = "go", !.c = held]
  ELSE [task EXCEPT !.fn = fn, !.stage = "boot"]

Settle(task, res, val) ==
  [task EXCEPT !.fn = "done", !.stage = "done", !.res = res, !.val = val]

(***************************************************************************)
(* boot / performBoot / preBoot / destroy                                  *)
(***************************************************************************)
\* performBoot up to `await WebContainer.boot()`, memoized by boot().
PerformBootStart(b) ==
  /\ status' = "booting"
  /\ trace' = trace \o StatusEvents(status, "booting") \o << <<"boot", b>> >>
  /\ timers' = timers \cup {"boot"}
  /\ boots' = [boots EXCEPT ![b] = "pending"]
  /\ bootPromise' = b

\* boot(): `if (this.bootPromise) return this.bootPromise`
InFlightBoot_Forgotten == Null

InFlightBoot == bootPromise

\* boot() as called by an operation: the held instance, the in-flight boot,
\* or a new boot.
BootCall(t) ==
  /\ InFlight(t)
  /\ tasks[t].stage = "boot"
  /\ IF container # Null
     THEN /\ tasks' = [tasks EXCEPT ![t].c = container, ![t].stage = "go"]
          /\ UNCHANGED <<mgrVars, monVars, rtVars, trace>>
     ELSE IF InFlightBoot # Null
     THEN /\ tasks' = [tasks EXCEPT ![t].wb = InFlightBoot, ![t].stage = "wb"]
          /\ UNCHANGED <<mgrVars, monVars, rtVars, trace>>
     ELSE /\ FreeBoots # {}
          /\ PerformBootStart(NextBoot)
          /\ tasks' = [tasks EXCEPT ![t].wb = NextBoot, ![t].stage = "wb"]
          /\ UNCHANGED <<container, devProcess, serverUrl, currentTree,
                         currentProjectId, currentMetrics, metrics, fs, procs,
                         readyListeners>>
  /\ UNCHANGED <<supported, store, jobs, nOps, overlap, nBootRecorded, saveOutcome>>
  /\ UNCHANGED <<destroyed, auxVars>>

\* The awaited boot promise has settled: the awaiter resumes with the
\* instance, or with the rejection.
BootAwaited(t) ==
  /\ InFlight(t)
  /\ \/ tasks[t].stage = "wb" /\ boots[tasks[t].wb] = "live"
     \/ tasks[t].stage = "wbfail"
  /\ tasks' = [tasks EXCEPT ![t] =
       IF tasks[t].stage = "wb"
       THEN [tasks[t] EXCEPT !.c = tasks[t].wb, !.wb = Null, !.stage = "go"]
       ELSE Fail(tasks[t], "boot")]
  /\ UNCHANGED <<mgrVars, monVars, rtVars, supported, store, jobs, nOps,
                 overlap, trace, nBootRecorded, saveOutcome>>
  /\ UNCHANGED <<destroyed, auxVars>>

\* performBoot after WebContainer.boot() resolved.
BootResolved(b) ==
  /\ Quiet
  /\ boots[b] = "pending"
  /\ \E d \in endTimer("boot") :
       currentMetrics' = Record(currentMetrics, "bootTime", d)
  /\ timers' = timers \ {"boot"}
  /\ nBootRecorded' = nBootRecorded + 1
  /\ container' = b
  /\ boots' = [boots EXCEPT ![b] = "live"]
  /\ UNCHANGED <<bootPromise, status, devProcess, serverUrl, currentTree,
                 currentProjectId, metrics, supported, store, fs, procs,
                 readyListeners, tasks, jobs, nOps, overlap, trace, saveOutcome>>
  /\ UNCHANGED <<destroyed, auxVars>>

\* performBoot's catch: WebContainer.boot() rejected.  The promise rejects
\* for its awaiters; no instance exists, the attempt is forgotten.
BootFailed(b) ==
  /\ Quiet
  /\ boots[b] = "pending"
  /\ boots' = [boots EXCEPT ![b] = "none"]
  /\ status' = "error"
  /\ bootPromise' = Null
  /\ trace' = trace \o StatusEvents(status, "error") \o << <<"error", "boot">> >>
  /\ tasks' = [t \in TaskIds |->
       IF InFlight(t) /\ tasks[t].stage = "wb" /\ tasks[t].wb = b
       THEN [tasks[t] EXCEPT !.stage = "wbfail", !.wb = Null]
       ELSE tasks[t]]
  /\ UNCHANGED <<container, devProcess, serverUrl, currentTree, currentProjectId,
                 monVars, supported, store, fs, procs, readyListeners,
                 jobs, nOps, overlap, nBootRecorded, saveOutcome>>
  /\ UNCHANGED <<destroyed, auxVars>>

\* preBoot(): a boot nobody awaits (config.enablePreBoot is on by default).
\* The hook calls it when the page loads, before any operation.
PreBoot ==
  /\ Quiet
  /\ nOps = 0 /\ status = "idle"
  /\ container = Null /\ bootPromise = Null
  /\ FreeBoots # {}
  /\ PerformBootStart(NextBoot)
  /\ UNCHANGED <<container, devProcess, serverUrl, currentTree, currentProjectId,
                 currentMetrics, metrics, supported, store, fs, procs,
                 readyListeners, tasks, jobs, nOps, overlap, nBootRecorded,
                 saveOutcome>>
  /\ UNCHANGED <<destroyed, auxVars>>

\* boot() called directly by the caller.
CallBoot(t) ==
  /\ CanCall(t)
  /\ tasks' = [tasks EXCEPT ![t] = Enter(StartTask("boot", NoTree, NoProject), "boot", container)]
  /\ trace' = NewTrace
  /\ nOps' = nOps + 1
  /\ UNCHANGED <<mgrVars, monVars, rtVars, supported, store, jobs, overlap,
                 nBootRecorded, saveOutcome>>
  /\ UNCHANGED <<destroyed, auxVars>>

\* boot() returns the instance to the caller.
BootReturn(t) ==
  /\ InFlight(t)
  /\ tasks[t].fn = "boot" /\ tasks[t].stage = "go"
  /\ tasks' = [tasks EXCEPT ![t] = Settle(tasks[t], "ok", tasks[t].c)]
  /\ UNCHANGED <<mgrVars, monVars, rtVars, supported, store, jobs, nOps,
                 overlap, trace, nBootRecorded, saveOutcome>>
  /\ UNCHANGED <<destroyed, auxVars>>

\* destroy(): this.processes is never filled, so only the dev server is
\* killed; the runtime instance is dropped without being torn down.
Destroy ==
  /\ Quiet
  /\ nOps < MaxOps
  /\ overlap \/ \A u \in TaskIds : ~ InFlight(u)
  /\ (\E u \in TaskIds : InFlight(u)) => FreeBoots # {}
  /\ procs' = IF devProcess # Null
              THEN [procs EXCEPT ![devProcess] = NoProc]
              ELSE procs
  /\ devProcess' = Null
  /\ container' = Null
  /\ bootPromise' = Null
  /\ serverUrl' = Null
  /\ currentTree' = NoTree
  /\ status' = "idle"
  /\ trace' = NewTrace \o << <<"destroy">> >>
               \o (IF devProcess # Null THEN << <<"kill", devProcess>> >> ELSE <<>>)
               \o StatusEvents(status, "idle")
  /\ nOps' = nOps + 1
  /\ tasks' = [t \in TaskIds |-> IF InFlight(t) THEN tasks[t] ELSE IdleTask]
  /\ UNCHANGED <<currentProjectId, monVars, supported, store, boots, fs,
                 readyListeners, jobs, overlap, nBootRecorded, saveOutcome>>
  /\ destroyed' = TRUE
  /\ UNCHANGED auxVars


(***************************************************************************)
(* mount / update / installDependencies                                    *)
(***************************************************************************)
\* mountAndRun(files, projectId?) up to the first await.
CallMountAndRun(t, files, projectId) ==
  /\ CanCall(t)
  /\ currentProjectId' = projectId
  /\ tasks' = [tasks EXCEPT ![t] = Enter(StartTask("mountAndRun", files, projectId), "mount", container)]
  /\ trace' = NewTrace
  /\ nOps' = nOps + 1
  /\ UNCHANGED <<container, bootPromise, status, devProcess, serverUrl,
                 currentTree, monVars, rtVars, supported, store, jobs, overlap,
                 nBootRecorded, saveOutcome>>
  /\ UNCHANGED <<destroyed, auxVars>>

\* update(files) and updateAndRefresh(files) up to the first await.
CallUpdate(t, op, files) ==
  /\ CanCall(t)
  /\ op \in {"update", "updateAndRefresh"}
  /\ tasks' = [tasks EXCEPT ![t] = Enter(StartTask(op, files, NoProject), "update", container)]
  /\ trace' = NewTrace
  /\ nOps' = nOps + 1
  /\ UNCHANGED <<mgrVars, monVars, rtVars, supported, store, jobs, overlap,
                 nBootRecorded, saveOutcome>>
  /\ UNCHANGED <<destroyed, auxVars>>

\* mount(): setStatus('mounting'), start the timer, await container.mount.
MountGo(t) ==
  /\ InFlight(t)
  /\ tasks[t].fn = "mount" /\ tasks[t].stage = "go"
  /\ status' = "mounting"
  /\ trace' = trace \o StatusEvents(status, "mounting")
  /\ timers' = timers \cup {"mount"}
  /\ tasks' = [tasks EXCEPT ![t].stage = "io"]
  /\ UNCHANGED <<container, bootPromise, devProcess, serverUrl, currentTree,
                 currentProjectId, currentMetrics, metrics, rtVars, supported,
                 store, jobs, nOps, overlap, nBootRecorded, saveOutcome>>
  /\ UNCHANGED <<destroyed, auxVars>>

\* mount() after container.mount resolved; mountAndRun and smartStart go on
\* to installDependencies.
MountDone(t) ==
  /\ Quiet
  /\ InFlight(t)
  /\ tasks[t].fn = "mount" /\ tasks[t].stage = "io"
  /\ fs' = [fs EXCEPT ![tasks[t].c].tree = tasks[t].tree]
  /\ \E d \in endTimer("mount") :
       currentMetrics' = Record(currentMetrics, "mountTime", d)
  /\ timers' = timers \ {"mount"}
  /\ currentTree' = tasks[t].tree
  /\ trace' = Append(trace, <<"mount", tasks[t].c, tasks[t].tree>>)
  /\ tasks' = [tasks EXCEPT ![t] = Enter(tasks[t], "install", container)]
  /\ UNCHANGED <<container, bootPromise, status, devProcess, serverUrl,
                 currentProjectId, metrics, boots, procs, readyListeners,
                 supported, store, jobs, nOps, overlap, nBootRecorded, saveOutcome>>
  /\ UNCHANGED <<destroyed, auxVars>>

\* container.mount rejected inside mount() or update(): nothing catches it
\* before the operation.
MountFail(t) ==
  /\ Quiet
  /\ InFlight(t)
  /\ tasks[t].fn \in {"mount", "update"} /\ tasks[t].stage = "io"
  /\ tasks' = [tasks EXCEPT ![t] = Fail(tasks[t], "mount")]
  /\ UNCHANGED <<mgrVars, monVars, rtVars, supported, store, jobs, nOps,
                 overlap, trace, nBootRecorded, saveOutcome>>
  /\ UNCHANGED <<destroyed, auxVars>>

\* update(): setStatus('mounting'), await container.mount.
UpdateGo(t) ==
  /\ InFlight(t)
  /\ tasks[t].fn = "update" /\ tasks[t].stage = "go"
  /\ status' = "mounting"
  /\ trace' = trace \o StatusEvents(status, "mounting")
  /\ tasks' = [tasks EXCEPT ![t].stage = "io"]
  /\ UNCHANGED <<container, bootPromise, devProcess, serverUrl, currentTree,
                 currentProjectId, monVars, rtVars, supported, store, jobs,
                 nOps, overlap, nBootRecorded, saveOutcome>>
  /\ UNCHANGED <<destroyed, auxVars>>

\* What follows the return of update() with the given didInstall: update
\* settles, updateAndRefresh calls startDevServer(didInstall || !serverUrl).
\* updateAndRefresh: the force flag `didInstall || !this.serverUrl`
ForceRestart_Always(didInstall, url) == TRUE

ForceRestart(didInstall, url) == didInstall \/ url = Null

AfterUpdate(task, didInstall, url, held) ==
  IF task.op = "update"
  THEN [Settle(task, "ok", Null) EXCEPT !.didInstall = didInstall]
  ELSE Enter([task EXCEPT !.didInstall = didInstall,
                          !.force = ForceRestart(didInstall, url)], "serve", held)

\* update() after container.mount resolved: replace currentTree, then decide
\* on the install with the dependency-change detector.
UpdateMounted(t) ==
  /\ Quiet
  /\ InFlight(t)
  /\ tasks[t].fn = "update" /\ tasks[t].stage = "io"
  /\ fs' = [fs EXCEPT ![tasks[t].c].tree = tasks[t].tree]
  /\ currentTree' = tasks[t].tree
  /\ trace' = Append(trace, <<"mount", tasks[t].c, tasks[t].tree>>)
  /\ tasks' = [tasks EXCEPT ![t] =
       IF hasDependencyChanged(currentTree, tasks[t].tree)
       THEN Enter(tasks[t], "install", container)
       ELSE AfterUpdate(tasks[t], FALSE, serverUrl, container)]
  /\ UNCHANGED <<container, bootPromise, status, devProcess, serverUrl,
                 currentProjectId, monVars, boots, procs, readyListeners,
                 supported, store, jobs, nOps, overlap, nBootRecorded, saveOutcome>>
  /\ UNCHANGED <<destroyed, auxVars>>

\* installDependencies(): setStatus('installing'), start the timer, record
\* cacheHit = false, await container.spawn('npm', ['install']).
InstallGo(t) ==
  /\ InFlight(t)
  /\ tasks[t].fn = "install" /\ tasks[t].stage = "go"
  /\ status' = "installing"
  /\ trace' = trace \o StatusEvents(status, "installing")
  /\ timers' = timers \cup {"install"}
  /\ currentMetrics' = Record(currentMetrics, "cacheHit", FALSE)
  /\ tasks' = [tasks EXCEPT ![t].stage = "spawn"]
  /\ UNCHANGED <<container, bootPromise, devProcess, serverUrl, currentTree,
                 currentProjectId, metrics, rtVars, supported, store, jobs,
                 nOps, overlap, nBootRecorded, saveOutcome>>
  /\ UNCHANGED <<destroyed, auxVars>>

\* The runtime spawned the install process.
InstallSpawned(t) ==
  /\ Quiet
  /\ InFlight(t)
  /\ tasks[t].fn = "install" /\ tasks[t].stage = "spawn"
  /\ FreeProcs # {}
  /\ procs' = [procs EXCEPT ![NextProc] =
                 [kind |-> "install", inst |-> tasks[t].c, state |-> "alive"]]
  /\ trace' = Append(trace, <<"spawn", "install", NextProc>>)
  /\ tasks' = [tasks EXCEPT ![t].proc = NextProc, ![t].stage = "exit"]
  /\ UNCHANGED <<mgrVars, monVars, boots, fs, readyListeners, supported, store,
                 jobs, nOps, overlap, nBootRecorded, saveOutcome>>
  /\ UNCHANGED <<destroyed, auxVars>>

\* container.spawn rejected (install or dev server).
SpawnFail(t) ==
  /\ Quiet
  /\ InFlight(t)
  /\ tasks[t].stage = "spawn"
  /\ tasks' = [tasks EXCEPT ![t] = Fail(tasks[t], "spawn")]
  /\ UNCHANGED <<mgrVars, monVars, rtVars, supported, store, jobs, nOps,
                 overlap, trace, nBootRecorded, saveOutcome>>
  /\ UNCHANGED <<destroyed, auxVars>>

ExitCodes == {0, 1}

\* What follows a successful installDependencies, per operation.
AfterInstall(task, url, held) ==
  IF task.op \in {"update", "updateAndRefresh"}
  THEN AfterUpdate(task, TRUE, url, held)
  ELSE Enter([task EXCEPT !.force = FALSE], "serve", held)

\* installDependencies() after the install process exited: record the
\* duration, throw on a non-zero exit code.
InstallExit(t, exitCode) ==
  /\ Quiet
  /\ InFlight(t)
  /\ tasks[t].fn = "install" /\ tasks[t].stage = "exit"
  /\ procs[tasks[t].proc].state = "alive"
  /\ procs' = [procs EXCEPT ![tasks[t].proc] = NoProc]
  /\ \E d \in endTimer("install") :
       currentMetrics' = Record(currentMetrics, "installTime", d)
  /\ timers' = timers \ {"install"}
  /\ trace' = Append(trace, <<"exit", tasks[t].proc, exitCode>>)
  /\ IF exitCode # 0
     THEN /\ tasks' = [tasks EXCEPT ![t] =
                 [Fail(tasks[t], "npm install failed with exit code") EXCEPT !.val = exitCode]]
          /\ fs' = fs
     ELSE /\ tasks' = [tasks EXCEPT ![t] = AfterInstall(tasks[t], serverUrl, container)]
          /\ fs' = [fs EXCEPT ![tasks[t].c].modules = fs[tasks[t].c].tree.pkg]
  /\ UNCHANGED <<mgrVars, metrics, boots, readyListeners, supported, store,
                 jobs, nOps, overlap, nBootRecorded, saveOutcome>>
  /\ UNCHANGED <<destroyed, auxVars>>


(***************************************************************************)
(* startDevServer                                                          *)
(***************************************************************************)
\* startDevServer: `if (force && this.devProcess)` terminate the existing
\* server before the new one is spawned.
TerminatesExisting_Never(force, proc) == FALSE

TerminatesExisting(force, proc) == force /\ proc # Null

\* startDevServer(force) after boot(): return the held url, or terminate the
\* existing server when forced, then setStatus('running') and spawn.
ServeGo(t) ==
  /\ InFlight(t)
  /\ tasks[t].fn = "serve" /\ tasks[t].stage = "go"
  /\ IF serverUrl # Null /\ ~ tasks[t].force
     THEN /\ tasks' = [tasks EXCEPT ![t].stage = "resolved", ![t].val = serverUrl]
          /\ UNCHANGED <<devProcess, serverUrl, status, timers, procs, trace>>
     ELSE /\ IF TerminatesExisting(tasks[t].force, devProcess)
             THEN /\ procs' = [procs EXCEPT ![devProcess] = NoProc]
                  /\ devProcess' = Null
                  /\ serverUrl' = Null
                  /\ trace' = trace \o << <<"kill", devProcess>> >>
                                    \o StatusEvents(status, "running")
             ELSE /\ UNCHANGED <<procs, devProcess, serverUrl>>
                  /\ trace' = trace \o StatusEvents(status, "running")
          /\ status' = "running"
          /\ timers' = timers \cup {"serverReady"}
          /\ tasks' = [tasks EXCEPT ![t].stage = "spawn"]
  /\ UNCHANGED <<container, bootPromise, currentTree, currentProjectId,
                 currentMetrics, metrics, boots, fs, readyListeners, supported,
                 store, jobs, nOps, overlap, nBootRecorded, saveOutcome>>
  /\ UNCHANGED <<destroyed, auxVars>>

\* startDevServer after container.spawn resolved: keep the process and
\* register one more 'server-ready' listener on the instance.
ServeSpawned(t) ==
  /\ Quiet
  /\ InFlight(t)
  /\ tasks[t].fn = "serve" /\ tasks[t].stage = "spawn"
  /\ FreeProcs # {}
  /\ procs' = [procs EXCEPT ![NextProc] =
                 [kind |-> "dev", inst |-> tasks[t].c, state |-> "alive"]]
  /\ devProcess' = NextProc
  /\ readyListeners' = [readyListeners EXCEPT ![tasks[t].c] =
                          Append(@, [task |-> t, pending |-> TRUE])]
  /\ trace' = Append(trace, <<"spawn", "dev", NextProc>>)
  /\ tasks' = [tasks EXCEPT ![t].proc = NextProc, ![t].stage = "ready"]
  /\ UNCHANGED <<container, bootPromise, status, serverUrl, currentTree,
                 currentProjectId, monVars, boots, fs, supported, store, jobs,
                 nOps, overlap, nBootRecorded, saveOutcome>>
  /\ UNCHANGED <<destroyed, auxVars>>

\* n copies of an event
RECURSIVE Repeat(_, _)
Repeat(e, n) == IF n = 0 THEN <<>> ELSE <<e>> \o Repeat(e, n - 1)

\* The url the runtime reports for the server of process p.
UrlOf(p) == p

\* The 'server-ready' listener calls resolve(url): the promise of its
\* startDevServer call settles unless it already has.
Resolves_Never(listener) == FALSE

Resolves(listener) == listener.pending

\* The runtime signals 'server-ready' for a dev process: every listener
\* registered on the instance runs (endTimer, record, serverUrl, setStatus,
\* emit, resolve); listeners are never removed, and after the first one the
\* timer is gone, so a later one records 0.
ServerReady(p) ==
  /\ Quiet
  /\ procs[p].kind = "dev" /\ procs[p].state = "alive"
  /\ procs' = [procs EXCEPT ![p].state = "listening"]
  /\ LET i == procs[p].inst
         n == Len(readyListeners[i])
     IN  IF n = 0
         THEN UNCHANGED <<timers, currentMetrics, serverUrl, status, trace,
                          tasks, readyListeners>>
         ELSE /\ \E d \in endTimer("serverReady") :
                   currentMetrics' = Record(currentMetrics, "serverReadyTime",
                                            IF n = 1 THEN d ELSE 0)
              /\ timers' = timers \ {"serverReady"}
              /\ serverUrl' = UrlOf(p)
              /\ status' = "ready"
              /\ trace' = trace \o StatusEvents(status, "ready")
                                \o Repeat(<<"server-ready", UrlOf(p)>>, n)
              /\ tasks' = [t \in TaskIds |->
                   IF \E k \in 1 .. n : readyListeners[i][k].task = t
                                        /\ Resolves(readyListeners[i][k])
                   THEN [tasks[t] EXCEPT !.stage = "resolved", !.val = UrlOf(p)]
                   ELSE tasks[t]]
              /\ readyListeners' = [readyListeners EXCEPT ![i] =
                   [k \in 1 .. n |-> [@[k] EXCEPT !.pending = FALSE]]]
  /\ UNCHANGED <<container, bootPromise, devProcess, currentTree,
                 currentProjectId, metrics, boots, fs, supported, store, jobs,
                 nOps, overlap, nBootRecorded, saveOutcome>>
  /\ UNCHANGED <<destroyed, auxVars>>

(***************************************************************************)
(* Snapshot saves (fire and forget)                                        *)
(***************************************************************************)
\* saveSnapshotToOPFS: the digest of `currentTree ? extractPackageJson(..) || '' : ''`
SnapshotDigest_OfNothing(tree) == sha256Hash(EmptyText)

SnapshotDigest(tree) == sha256Hash(PackageJsonOrEmpty(tree))

\* saveSnapshotToOPFS(projectId) up to its first await: nothing without OPFS
\* or without a held instance; the digest is taken from currentTree.
NewJobs(projectId) ==
  IF supported /\ container # Null
  THEN << [proj |-> projectId, hash |-> SnapshotDigest(currentTree),
           stage |-> "export", tries |-> 0] >>
  ELSE <<>>

\* The saves an operation schedules when it is about to return.
ScheduledBy_AnyProject(task) == NewJobs("p1")

ScheduledBy(task) ==
  IF task.op = "mountAndRun"
  THEN IF task.proj # NoProject /\ supported THEN NewJobs(task.proj) ELSE <<>>
  ELSE IF task.op = "smartStart"
  THEN IF task.viaCache THEN <<>> ELSE NewJobs(task.proj)
  ELSE IF currentProjectId # NoProject /\ supported
       THEN NewJobs(currentProjectId) ELSE <<>>

\* The tail of mountAndRun, smartStart and updateAndRefresh after
\* startDevServer returned: finish and emit the metrics (not in
\* updateAndRefresh), schedule the snapshot save, return.
OpFinish(t) ==
  /\ InFlight(t)
  /\ tasks[t].fn = "serve" /\ tasks[t].stage = "resolved"
  /\ IF tasks[t].op = "updateAndRefresh"
     THEN /\ UNCHANGED <<monVars, trace>>
          /\ tasks' = [tasks EXCEPT ![t] = Settle(tasks[t], "true", tasks[t].val)]
     ELSE /\ metrics' = Append(metrics, finishMetrics(currentMetrics))
          /\ currentMetrics' = <<>>
          /\ timers' = timers
          /\ trace' = Append(trace, <<"metrics", finishMetrics(currentMetrics)>>)
          /\ tasks' = [tasks EXCEPT ![t] = Settle(tasks[t], "ok", tasks[t].val)]
  /\ jobs' = jobs \o ScheduledBy(tasks[t])
  /\ saveOutcome' = IF ScheduledBy(tasks[t]) # <<>> THEN "pending" ELSE saveOutcome
  /\ UNCHANGED <<mgrVars, rtVars, supported, store, nOps, overlap, nBootRecorded>>
  /\ UNCHANGED <<destroyed, auxVars>>


(***************************************************************************)
(* Snapshot store (OPFSStorage) and smartStart                             *)
(***************************************************************************)
\* OPFSStorage.getSnapshotMetadata: the parsed metadata.json, or NoMeta (null)
\* when the directory or the file is missing.
getSnapshotMetadata(projectId) ==
  IF store[projectId].exists THEN store[projectId].meta ELSE NoMeta

\* OPFSStorage.hasValidSnapshot (the digest is compared only when one is
\* supplied)
hasValidSnapshot(projectId, expectedHash) ==
  LET metadata == getSnapshotMetadata(projectId)
  IN  IF ~ metadata.present THEN FALSE
      ELSE IF expectedHash # NoHash /\ metadata.hash # expectedHash THEN FALSE
      ELSE IF metadata.age > MaxCacheAge THEN FALSE
      ELSE TRUE

\* OPFSStorage.restoreSnapshot up to the mount: what the metadata and the
\* files of the entry decide.
RestoreVerdict_NoDigestCheck(projectId, expectedHash) ==
  LET metadata == getSnapshotMetadata(projectId)
  IN  IF ~ metadata.present THEN "missing"
      ELSE IF metadata.age > MaxCacheAge THEN "expired"
      ELSE IF ~ store[projectId].hasImg THEN "missing"
      ELSE "mount"

RestoreVerdict(projectId, expectedHash) ==
  LET metadata == getSnapshotMetadata(projectId)
  IN  IF ~ metadata.present THEN "missing"
      ELSE IF expectedHash # NoHash /\ metadata.hash # expectedHash THEN "mismatch"
      ELSE IF metadata.age > MaxCacheAge THEN "expired"
      ELSE IF ~ store[projectId].hasImg THEN "missing"
      ELSE "mount"

\* smartStart(files, projectId) up to the validity check of the snapshot.
CallSmartStart(t, files, projectId) ==
  /\ CanCall(t)
  /\ currentProjectId' = projectId
  /\ tasks' = [tasks EXCEPT ![t] =
       LET task == [StartTask("smartStart", files, projectId)
                      EXCEPT !.hash = sha256Hash(PackageJsonOrEmpty(files))]
       IN  IF supported
           THEN [task EXCEPT !.fn = "check", !.stage = "io"]
           ELSE Enter(task, "mount", container)]
  /\ trace' = NewTrace
  /\ nOps' = nOps + 1
  /\ UNCHANGED <<container, bootPromise, status, devProcess, serverUrl,
                 currentTree, monVars, rtVars, supported, store, jobs, overlap,
                 nBootRecorded, saveOutcome>>
  /\ UNCHANGED <<destroyed, auxVars>>

\* smartStart after opfs.hasValidSnapshot: restore, or the full path.
SmartCheck(t) ==
  /\ Quiet
  /\ InFlight(t)
  /\ tasks[t].fn = "check" /\ tasks[t].stage = "io"
  /\ tasks' = [tasks EXCEPT ![t] =
       Enter(tasks[t], IF hasValidSnapshot(tasks[t].proj, tasks[t].hash)
                       THEN "restore" ELSE "mount", container)]
  /\ UNCHANGED <<mgrVars, monVars, rtVars, supported, store, jobs, nOps,
                 overlap, trace, nBootRecorded, saveOutcome>>
  /\ UNCHANGED <<destroyed, auxVars>>

\* restoreSnapshotFromOPFS after boot(): setStatus('mounting'), start the
\* mount timer, await opfs.restoreSnapshot.
RestoreGo(t) ==
  /\ InFlight(t)
  /\ tasks[t].fn = "restore" /\ tasks[t].stage = "go"
  /\ status' = "mounting"
  /\ trace' = trace \o StatusEvents(status, "mounting")
  /\ timers' = timers \cup {"mount"}
  /\ tasks' = [tasks EXCEPT ![t].stage = "io"]
  /\ UNCHANGED <<container, bootPromise, devProcess, serverUrl, currentTree,
                 currentProjectId, currentMetrics, metrics, rtVars, supported,
                 store, jobs, nOps, overlap, nBootRecorded, saveOutcome>>
  /\ UNCHANGED <<destroyed, auxVars>>

\* restoreSnapshotFromOPFS on success: recordMountTime(mountTime),
\* recordInstallTime(0), recordCacheHit(true)
RestoreRecords_NoCacheHit(m, mountTime) ==
  Record(Record(m, "mountTime", mountTime), "installTime", 0)

RestoreRecords(m, mountTime) ==
  Record(Record(Record(m, "mountTime", mountTime), "installTime", 0),
         "cacheHit", TRUE)

\* smartStart when restoreSnapshotFromOPFS returned false: fall through to
\* the full path (mount, install, start).
AfterRestoreMiss_Rejects(task, held) ==
  Fail([task EXCEPT !.restoreFailed = TRUE], "restore")

AfterRestoreMiss(task, held) ==
  Enter([task EXCEPT !.restoreFailed = TRUE], "mount", held)

\* opfs.restoreSnapshot returned true: the image is mounted; record the
\* mount time, installTime 0 and cacheHit, then start the server.
RestoreOk(t) ==
  /\ Quiet
  /\ InFlight(t)
  /\ tasks[t].fn = "restore" /\ tasks[t].stage = "io"
  /\ RestoreVerdict(tasks[t].proj, tasks[t].hash) = "mount"
  /\ fs' = [fs EXCEPT ![tasks[t].c] = store[tasks[t].proj].img]
  /\ \E d \in endTimer("mount") :
       currentMetrics' = RestoreRecords(currentMetrics, d)
  /\ timers' = timers \ {"mount"}
  /\ currentProjectId' = tasks[t].proj
  /\ trace' = Append(trace, <<"restore", tasks[t].c, store[tasks[t].proj].img>>)
  /\ tasks' = [tasks EXCEPT ![t] =
       Enter([tasks[t] EXCEPT !.force = FALSE, !.viaCache = TRUE], "serve", container)]
  /\ UNCHANGED <<container, bootPromise, status, devProcess, serverUrl,
                 currentTree, metrics, boots, procs, readyListeners, supported,
                 store, jobs, nOps, overlap, nBootRecorded, saveOutcome>>
  /\ UNCHANGED <<destroyed, auxVars>>

\* opfs.restoreSnapshot returned false: a stale or expired entry is deleted;
\* a missing entry, an unreadable file or an image the runtime rejects is
\* caught.  smartStart falls back to the full path.
RestoreMiss(t) ==
  /\ Quiet
  /\ InFlight(t)
  /\ tasks[t].fn = "restore" /\ tasks[t].stage = "io"
  /\ store' = IF RestoreVerdict(tasks[t].proj, tasks[t].hash) \in {"mismatch", "expired"}
              THEN [store EXCEPT ![tasks[t].proj] = NoEntry]
              ELSE store
  /\ timers' = timers \ {"mount"}
  /\ tasks' = [tasks EXCEPT ![t] = AfterRestoreMiss(tasks[t], container)]
  /\ UNCHANGED <<mgrVars, currentMetrics, metrics, rtVars, supported, jobs,
                 nOps, overlap, trace, nBootRecorded, saveOutcome>>
  /\ UNCHANGED <<destroyed, auxVars>>

\* Time passes: every stored snapshot gets older.
Age ==
  /\ Quiet
  /\ \E p \in DOMAIN store : store[p].meta.present /\ store[p].meta.age <= MaxCacheAge
  /\ store' = [p \in DOMAIN store |->
       IF store[p].meta.present /\ store[p].meta.age <= MaxCacheAge
       THEN [store[p] EXCEPT !.meta.age = @ + 1]
       ELSE store[p]]
  /\ UNCHANGED <<mgrVars, monVars, rtVars, supported, tasks, jobs, nOps,
                 overlap, trace, nBootRecorded, saveOutcome>>
  /\ UNCHANGED <<destroyed, auxVars>>

RemoveAt(seq, j) == [k \in 1 .. Len(seq) - 1 |-> IF k < j THEN seq[k] ELSE seq[k + 1]]

\* saveSnapshotToOPFS after sha256Hash: this.container is read and handed to
\* opfs.saveSnapshot, whose container.export('.', binary) resolves with the
\* image of the instance's file system; snapshot.bin is written (creating
\* the project directory).
JobExported(j) ==
  /\ Quiet
  /\ j \in DOMAIN jobs
  /\ jobs[j].stage = "export"
  /\ container # Null
  /\ store' = [store EXCEPT ![jobs[j].proj].exists = TRUE,
                            ![jobs[j].proj].hasImg = TRUE,
                            ![jobs[j].proj].img = fs[container]]
  /\ jobs' = [jobs EXCEPT ![j].stage = "meta"]
  /\ UNCHANGED <<mgrVars, monVars, rtVars, supported, tasks, nOps, overlap,
                 trace, nBootRecorded, saveOutcome>>
  /\ UNCHANGED <<destroyed, auxVars>>

\* container.export rejected (it throws when this.container is null by
\* now): an ENOENT error is retried once, any other error and a second
\* failure fail the save.
JobExportFailed(j, enoent) ==
  /\ Quiet
  /\ j \in DOMAIN jobs
  /\ jobs[j].stage = "export"
  /\ container = Null => ~ enoent
  /\ IF enoent /\ jobs[j].tries = 0
     THEN /\ jobs' = [jobs EXCEPT ![j].tries = 1]
          /\ saveOutcome' = saveOutcome
     ELSE /\ jobs' = RemoveAt(jobs, j)
          /\ saveOutcome' = "failed"
  /\ UNCHANGED <<mgrVars, monVars, rtVars, supported, store, tasks, nOps,
                 overlap, trace, nBootRecorded>>
  /\ UNCHANGED <<destroyed, auxVars>>

\* opfs.saveSnapshot: metadata.json written with the digest and Date.now()
\* through the directory handle obtained for snapshot.bin; the write needs
\* the directory to exist still.
JobWriteMeta(j) ==
  /\ Quiet
  /\ j \in DOMAIN jobs
  /\ jobs[j].stage = "meta"
  /\ store[jobs[j].proj].exists
  /\ store' = [store EXCEPT ![jobs[j].proj].meta =
                               [present |-> TRUE, hash |-> jobs[j].hash, age |-> 0]]
  /\ jobs' = RemoveAt(jobs, j)
  /\ saveOutcome' = "saved"
  /\ UNCHANGED <<mgrVars, monVars, rtVars, supported, tasks, nOps, overlap,
                 trace, nBootRecorded>>
  /\ UNCHANGED <<destroyed, auxVars>>

\* A write to OPFS failed (quota, I/O): the save fails before metadata.json
\* is replaced.
JobWriteFailed(j) ==
  /\ Quiet
  /\ j \in DOMAIN jobs
  /\ jobs[j].stage = "meta"
  /\ jobs' = RemoveAt(jobs, j)
  /\ saveOutcome' = "failed"
  /\ UNCHANGED <<mgrVars, monVars, rtVars, supported, store, tasks, nOps,
                 overlap, trace, nBootRecorded>>
  /\ UNCHANGED <<destroyed, auxVars>>

(***************************************************************************)
(* Specification                                                           *)
(***************************************************************************)
OptProjects == Projects \cup {NoProject}

Next ==
  \/ PreBoot
  \/ Destroy
  \/ Age
  \/ \E b \in BootIds : BootResolved(b) \/ BootFailed(b)
  \/ \E p \in ProcIds : ServerReady(p)
  \/ \E j \in 1 .. MaxJobs : \/ JobExported(j)
                             \/ JobWriteMeta(j) \/ JobWriteFailed(j)
                             \/ \E enoent \in BOOLEAN : JobExportFailed(j, enoent)
  \/ \E t \in TaskIds :
       \/ CallBoot(t)
       \/ \E files \in Trees, projectId \in OptProjects : CallMountAndRun(t, files, projectId)
       \/ \E files \in Trees, op \in {"update", "updateAndRefresh"} : CallUpdate(t, op, files)
       \/ \E files \in Trees, projectId \in Projects : CallSmartStart(t, files, projectId)
       \/ BootCall(t) \/ BootAwaited(t) \/ BootReturn(t)
       \/ MountGo(t) \/ MountDone(t) \/ MountFail(t)
       \/ UpdateGo(t) \/ UpdateMounted(t)
       \/ InstallGo(t) \/ InstallSpawned(t) \/ SpawnFail(t)
       \/ \E exitCode \in ExitCodes : InstallExit(t, exitCode)
       \/ ServeGo(t) \/ ServeSpawned(t) \/ OpFinish(t)
       \/ SmartCheck(t) \/ RestoreGo(t) \/ RestoreOk(t) \/ RestoreMiss(t)

Spec == Init /\ [][Next]_vars

(***************************************************************************)
(* The event loop is fair: a pending continuation runs, a boot, a spawned  *)
(* dev server and a snapshot save in flight settle one way or the other.   *)
(***************************************************************************)
Continue ==
  \E t \in TaskIds :
    \/ BootCall(t) \/ BootAwaited(t) \/ BootReturn(t)
    \/ MountGo(t) \/ UpdateGo(t) \/ InstallGo(t) \/ ServeGo(t)
    \/ RestoreGo(t) \/ OpFinish(t)

SaveStep ==
  \E j \in 1 .. MaxJobs :
    \/ JobExported(j) \/ JobWriteMeta(j) \/ JobWriteFailed(j)
    \/ \E enoent \in BOOLEAN : JobExportFailed(j, enoent)

\* Snapshot saves exist only where OPFS is available.
InitLive == Init /\ supported

SpecLive == InitLive /\ [][Next]_vars /\ WF_vars(Continue) /\ WF_vars(SaveStep)

(***************************************************************************)
(* Properties.                                                             *)
(***************************************************************************)
HasEvent(tr, e) == \E i \in DOMAIN tr : tr[i] = e

MetricsEvents(tr) == {i \in DOMAIN tr : tr[i][1] = "metrics"}

LiveBoots == {b \in BootIds : boots[b] = "live"}

Digests == {sha256Hash(PackageJsonOrEmpty(tree)) : tree \in Trees}

\* C1: whenever mountAndRun, smartStart or updateAndRefresh returns control
\* to the caller, the status is 'ready' if the call succeeded and 'error' if
\* it failed.
C1_SettlesReadyOrError ==
  [][\A t \in TaskIds :
       (/\ InFlight(t)
        /\ tasks[t].op \in {"mountAndRun", "smartStart", "updateAndRefresh"}
        /\ tasks'[t].res # "none")
       => IF tasks'[t].res \in {"ok", "true"}
          THEN status' = "ready"
          ELSE status' = "error"]_vars

\* C2: when the install process exits with a non-zero code during
\* mountAndRun, mountAndRun rejects with an error carrying that exit code and
\* the status is 'error' afterwards.
C2_InstallFailureSetsError ==
  [][\A t \in TaskIds :
       (/\ InFlight(t)
        /\ tasks[t].op = "mountAndRun"
        /\ tasks[t].fn = "install" /\ tasks[t].stage = "exit"
        /\ tasks'[t].stage # "exit"
        /\ trace'[Len(trace')][1] = "exit" /\ trace'[Len(trace')][3] # 0)
       => /\ tasks'[t].res = "rejected"
          /\ tasks'[t].val = trace'[Len(trace')][3]
          /\ status' = "error"]_vars

C4_OneLiveRuntime == Cardinality(LiveBoots) <= 1

\* C5: a smartStart that restored a valid snapshot spawns no install
\* process, and the metrics emitted for the run have cacheHit = true and
\* installTime = 0.
C5_CacheHitSkipsInstall ==
  \A t \in TaskIds :
    (tasks[t].op = "smartStart" /\ tasks[t].viaCache) =>
      /\ ~ \E p \in ProcIds : HasEvent(trace, <<"spawn", "install", p>>)
      /\ tasks[t].res = "ok" =>
           /\ Cardinality(MetricsEvents(trace)) = 1
           /\ \A i \in MetricsEvents(trace) :
                /\ trace[i][2].cacheHit = TRUE
                /\ trace[i][2].installTime = 0
                /\ trace[i][2] = metrics[Len(metrics)]

C5_Witness ==
  \E t \in TaskIds :
    /\ tasks[t].op = "smartStart" /\ tasks[t].viaCache /\ tasks[t].res = "ok"
    /\ \E i \in DOMAIN trace : trace[i][1] = "restore"

\* C6: a smartStart without a valid snapshot, or whose restore failed, does
\* not reject because of that: a rejection comes from the boot, the mount,
\* the install or the server start, and a successful call mounted the
\* supplied tree, ran the install to exit code 0, started the server and
\* emitted metrics with cacheHit = false.
C6_FallsBackToFullPath ==
  \A t \in TaskIds :
    (tasks[t].op = "smartStart" /\ ~ tasks[t].viaCache /\ tasks[t].res # "none") =>
      /\ tasks[t].res \in {"ok", "rejected"}
      /\ tasks[t].res = "rejected" =>
           tasks[t].err \in {"boot", "mount", "spawn",
                             "npm install failed with exit code"}
      /\ tasks[t].res = "ok" =>
           /\ \E b \in BootIds : HasEvent(trace, <<"mount", b, tasks[t].tree>>)
           /\ \E p \in ProcIds : /\ HasEvent(trace, <<"spawn", "install", p>>)
                                 /\ HasEvent(trace, <<"exit", p, 0>>)
           /\ tasks[t].val # Null /\ tasks[t].val = serverUrl
           /\ Cardinality(MetricsEvents(trace)) = 1
           /\ \A i \in MetricsEvents(trace) : trace[i][2].cacheHit = FALSE

\* The restore failed after the validity check passed, and the call still
\* succeeded through the full path.
C6_Witness ==
  \E t \in TaskIds :
    /\ tasks[t].op = "smartStart" /\ tasks[t].restoreFailed
    /\ tasks[t].res = "ok"
    /\ \E p \in ProcIds : HasEvent(trace, <<"exit", p, 0>>)

C8_UpdateAndRefreshReturnsBoolean ==
  \A t \in TaskIds :
    (tasks[t].op = "updateAndRefresh" /\ tasks[t].res # "none") =>
      /\ tasks[t].res \in {"true", "false"}
      /\ tasks[t].res = "false" <=>
           tasks[t].err \in {"boot", "mount", "spawn",
                             "npm install failed with exit code"}
      /\ tasks[t].res = "true" =>
           /\ tasks[t].err = "none"
           /\ \E b \in BootIds : HasEvent(trace, <<"mount", b, tasks[t].tree>>)
           /\ tasks[t].didInstall =>
                \E p \in ProcIds : HasEvent(trace, <<"exit", p, 0>>)
           /\ serverUrl # Null

C8_Witness ==
  \E t \in TaskIds :
    /\ tasks[t].op = "updateAndRefresh" /\ tasks[t].res = "false"
    /\ tasks[t].err = "npm install failed with exit code"
    /\ \E p \in ProcIds : HasEvent(trace, <<"exit", p, 1>>)

\* C9: when updateAndRefresh reaches the server start, the server is
\* (re)started iff the update installed or no server url is held; on a
\* restart no dev-server process is left alive before the new one is
\* spawned; otherwise no process is spawned or killed and the url is kept.
C9_RestartIffInstalledOrNoUrl ==
  [][\A t \in TaskIds :
       (/\ InFlight(t)
        /\ tasks[t].op = "updateAndRefresh"
        /\ tasks[t].fn = "serve" /\ tasks[t].stage = "go"
        /\ tasks'[t].stage # "go")
       => LET needed == tasks[t].didInstall \/ serverUrl = Null
          IN  /\ (tasks'[t].stage = "spawn") <=> needed
              /\ needed =>
                   /\ \A p \in ProcIds : procs'[p].kind # "dev"
                   /\ devProcess' = Null /\ serverUrl' = Null
              /\ ~ needed =>
                   /\ procs' = procs /\ devProcess' = devProcess
                   /\ serverUrl' = serverUrl
                   /\ tasks'[t].val = serverUrl
                   /\ trace' = trace]_vars

\* An updateAndRefresh that installed killed the running server and then
\* spawned a new one.
C9_Witness ==
  \E t \in TaskIds :
    /\ tasks[t].op = "updateAndRefresh" /\ tasks[t].res = "true"
    /\ tasks[t].didInstall
    /\ \E i, j \in DOMAIN trace :
         /\ i < j
         /\ trace[i][1] = "kill"
         /\ trace[j][1] = "spawn" /\ trace[j][2] = "dev"

\* The new manifest declares every dependency of the old one and one more.
AddsDependency(oldTree, newTree) ==
  /\ oldTree # NoTree
  /\ extractPackageJson(oldTree) # NullText
  /\ extractPackageJson(newTree) # NullText
  /\ LET old == KeysOf(parseDependencies(extractPackageJson(oldTree)).dependencies)
         new == KeysOf(parseDependencies(extractPackageJson(newTree)).dependencies)
     IN  /\ \A i \in DOMAIN old : \E j \in DOMAIN new : new[j] = old[i]
         /\ \E j \in DOMAIN new : \A i \in DOMAIN old : new[j] # old[i]

\* C10: update(tree) called on a ready orchestrator with a tree that adds a
\* dependency returns didInstall = true, and the status passes through
\* 'installing' and is 'ready' again when it returns.
C10_UpdateInstallsThenReady ==
  [][\A t \in TaskIds :
       (/\ InFlight(t)
        /\ tasks[t].op = "update"
        /\ tasks[t].status0 = "ready"
        /\ AddsDependency(tasks[t].tree0, tasks[t].tree)
        /\ tasks'[t].res = "ok")
       => /\ tasks'[t].didInstall
          /\ HasEvent(trace', <<"status", "installing">>)
          /\ status' = "ready"]_vars

\* The dependency maps of two manifests are equal as key-to-version maps.
LastValue(pairs, k) ==
  pairs[CHOOSE i \in DOMAIN pairs :
          /\ pairs[i][1] = k
          /\ \A j \in DOMAIN pairs : pairs[j][1] = k => j <= i][2]

DepMap(pairs) == {<<pairs[i][1], LastValue(pairs, pairs[i][1])>> : i \in DOMAIN pairs}

SameDependencies(pkg1, pkg2) ==
  /\ pkg1.kind = "json" /\ pkg2.kind = "json"
  /\ DepMap(pkg1.deps) = DepMap(pkg2.deps)
  /\ DepMap(pkg1.dev) = DepMap(pkg2.dev)

\* C11: when update, updateAndRefresh, mountAndRun or smartStart reports
\* success, the modules in the runtime instance it used were produced by a
\* successful install, or restored from a snapshot, for a manifest whose
\* dependency maps equal those of the tree it was given.
C11_ModulesMatchManifest ==
  [][\A t \in TaskIds :
       (/\ InFlight(t)
        /\ ~ overlap
        /\ tasks[t].op \in {"update", "updateAndRefresh", "mountAndRun", "smartStart"}
        /\ tasks'[t].res \in {"ok", "true"})
       => /\ tasks'[t].c # Null
          /\ SameDependencies(fs'[tasks'[t].c].modules, tasks[t].tree.pkg)]_vars

(***************************************************************************)
(* The dependency-change detector called directly on bounded file trees.   *)
(***************************************************************************)
MaxDeps == 2           \* entries written in one dependency object

\* The entries a manifest may list and the objects built from them.
DepEntries == {<<"react", 18>>, <<"react", 19>>, <<"lodash", 4>>}

RECURSIVE SeqsUpTo(_, _)
SeqsUpTo(S, n) ==
  IF n = 0 THEN {<<>>}
  ELSE LET shorter == SeqsUpTo(S, n - 1)
       IN  shorter \cup {Append(q, e) : q \in shorter, e \in S}

Manifests ==
  {Json(deps, dev) : deps \in SeqsUpTo(DepEntries, MaxDeps),
                     dev \in {<<>>, << <<"vite", 5>> >>}}
    \cup {NoFile, EmptyText, BadJson}

DetectorTrees == {Tree(pkg, src) : pkg \in Manifests, src \in {1, 2}}

InitDetector ==
  /\ InitManager
  /\ overlap = FALSE
  /\ mon = NoMon
  /\ strip = NoStrip
  /\ detector \in {[prev |-> p, next |-> n, out |-> "none"] :
                     p \in DetectorTrees \cup {NoTree}, n \in DetectorTrees}
  /\ call = NoCall
  /\ roundTrip = [p \in Projects |-> NoRoundTrip]

\* hasDependencyChanged(prev, next) is called and returns.
DetectorCall ==
  /\ detector.out = "none"
  /\ detector' = [detector EXCEPT
                    !.out = IF hasDependencyChanged(detector.prev, detector.next)
                            THEN "changed" ELSE "same"]
  /\ UNCHANGED <<mgrVars, monVars, rtVars, supported, store, tasks, jobs, nOps,
                 overlap, trace, nBootRecorded, destroyed, saveOutcome, call,
                 roundTrip, apiVars>>

NextDetector == DetectorCall

SpecDetector == InitDetector /\ [][NextDetector]_vars

Parseable(tree) == tree # NoTree /\ tree.pkg.kind = "json"

\* C12: when both trees hold a manifest and the manifests' runtime and
\* development dependency maps are equal as key-to-version maps, the
\* detector reports no change, whatever the key order and the other files.
C12_EqualMapsUnchanged ==
  (/\ detector.out # "none"
   /\ Parseable(detector.prev) /\ Parseable(detector.next)
   /\ SameDependencies(detector.prev.pkg, detector.next.pkg))
  => detector.out = "same"

\* The same two dependencies written in the opposite order, next to other
\* source files, compared as unchanged.
C12_Witness ==
  /\ detector.out = "same"
  /\ detector.prev.pkg = Json(<< <<"react", 18>>, <<"lodash", 4>> >>, << <<"vite", 5>> >>)
  /\ detector.next.pkg = Json(<< <<"lodash", 4>>, <<"react", 18>> >>, << <<"vite", 5>> >>)
  /\ detector.prev.src # detector.next.src

\* C13: when the manifests differ in the membership of the runtime or of the
\* development dependency set, or in the version of a dependency, the
\* detector reports a change.
C13_DifferentMapsChanged ==
  (/\ detector.out # "none"
   /\ Parseable(detector.prev) /\ Parseable(detector.next)
   /\ ~ SameDependencies(detector.prev.pkg, detector.next.pkg))
  => detector.out = "changed"

\* Only the version of one dependency differs.
C13_Witness ==
  /\ detector.out = "changed"
  /\ detector.prev.pkg = Json(<< <<"react", 18>> >>, << <<"vite", 5>> >>)
  /\ detector.next.pkg = Json(<< <<"react", 19>> >>, << <<"vite", 5>> >>)

\* C14: the detector reports a change whenever the previous tree is null or
\* one of the trees has no manifest, an empty manifest or a manifest that
\* is not valid JSON.
C14_UnparseableMeansChanged ==
  (/\ detector.out # "none"
   /\ \/ detector.prev = NoTree
      \/ ~ Parseable(detector.prev)
      \/ ~ Parseable(detector.next))
  => detector.out = "changed"

(***************************************************************************)
(* The snapshot store (OPFSStorage) called directly, one call at a time,   *)
(* with runtime instances that hold a file system.                         *)
(***************************************************************************)
\* What a runtime instance can hold: a mounted tree with the modules
\* installed for its manifest.
Images == {[tree |-> tree, modules |-> tree.pkg] : tree \in Trees}

ExpectedHashes == Digests \cup {NoHash}

InitStore ==
  /\ container = Null
  /\ bootPromise = Null
  /\ status = "idle"
  /\ devProcess = Null
  /\ serverUrl = Null
  /\ currentTree = NoTree
  /\ currentProjectId = NoProject
  /\ timers = {}
  /\ currentMetrics = <<>>
  /\ metrics = <<>>
  /\ supported \in BOOLEAN
  /\ store = [p \in Projects |-> NoEntry]
  /\ boots = [b \in BootIds |-> "live"]
  /\ fs \in [BootIds -> Images]
  /\ procs = [p \in ProcIds |-> NoProc]
  /\ readyListeners = [b \in BootIds |-> <<>>]
  /\ tasks = [t \in TaskIds |-> IdleTask]
  /\ jobs = <<>>
  /\ nOps = 0
  /\ overlap = FALSE
  /\ trace = <<>>
  /\ nBootRecorded = 0
  /\ destroyed = FALSE
  /\ saveOutcome = "none"
  /\ mon = NoMon
  /\ strip = NoStrip
  /\ detector = NoDetectorCall
  /\ call = NoCall
  /\ roundTrip = [p \in Projects |-> NoRoundTrip]

\* No call of the store is in progress.
CallIdle == call.stage \in {"idle", "done"}

\* A call of the store is entered.
NewCall(op, projectId, inst, hash) ==
  [NoCall EXCEPT !.op = op, !.proj = projectId, !.inst = inst, !.hash = hash,
                 !.turn = ~ call.turn]

Return(c, result) == [c EXCEPT !.stage = "done", !.result = result]

\* OPFSStorage.deleteProject: removeEntry(projectId, {recursive: true})
deleteProject(st, projectId) == [st EXCEPT ![projectId] = NoEntry]

\* OPFSStorage.listProjects: the directories under the root
listProjects == {p \in DOMAIN store : store[p].exists}

\* restoreSnapshot deletes the entry on a digest mismatch and on expiry.
Evicts_OnlyMismatch(verdict) == verdict = "mismatch"

Evicts(verdict) == verdict \in {"mismatch", "expired"}

\* restoreSnapshot: the contents of snapshot.bin handed to container.mount
RestoredImage_Empty(entry) == NoImage

RestoredImage(entry) == entry.img

\* saveSnapshot(projectId, container, pkgHash) up to container.export;
\* without OPFS it returns at once.
StoreSave(projectId, inst, pkgHash) ==
  /\ CallIdle
  /\ call' = IF supported
             THEN [NewCall("save", projectId, inst, pkgHash) EXCEPT !.stage = "export"]
             ELSE Return(NewCall("save", projectId, inst, pkgHash), "void")
  /\ roundTrip' = [roundTrip EXCEPT ![projectId] = NoRoundTrip]
  /\ UNCHANGED <<mgrVars, monVars, rtVars, supported, store, tasks, jobs, nOps,
                 overlap, trace, nBootRecorded, destroyed, saveOutcome, detector, apiVars>>

\* saveSnapshot: a failed export is tried again when the error code is
\* ENOENT and no retry was made yet.
RetriesExport_Always(outcome, retryCount) == outcome = "enoent"

RetriesExport(outcome, retryCount) == outcome = "enoent" /\ retryCount < 1

\* container.export settles: with the image, with an empty image (the save
\* is skipped), with ENOENT (retried once) or with another error.
StoreExport(outcome) ==
  /\ call.op = "save" /\ call.stage = "export"
  /\ call' = IF outcome = "image"
             THEN [[call EXCEPT !.stage = "bin", !.img = fs[call.inst]]
                    EXCEPT !.exported = outcome]
             ELSE IF outcome = "empty"
             THEN Return([call EXCEPT !.exported = outcome], "void")
             ELSE IF RetriesExport(outcome, call.tries)
             THEN [call EXCEPT !.tries = @ + 1, !.exported = outcome]
             ELSE Return([call EXCEPT !.exported = outcome], "thrown")
  /\ UNCHANGED <<mgrVars, monVars, rtVars, supported, store, tasks, jobs, nOps,
                 overlap, trace, nBootRecorded, destroyed, saveOutcome, detector, apiVars,
                 roundTrip>>

\* saveSnapshot: the project directory is created and snapshot.bin written.
StoreWriteBin ==
  /\ call.op = "save" /\ call.stage = "bin"
  /\ store' = [store EXCEPT ![call.proj].exists = TRUE,
                            ![call.proj].hasImg = TRUE,
                            ![call.proj].img = call.img]
  /\ call' = [call EXCEPT !.stage = "meta"]
  /\ UNCHANGED <<mgrVars, monVars, rtVars, supported, tasks, jobs, nOps,
                 overlap, trace, nBootRecorded, destroyed, saveOutcome, detector, apiVars,
                 roundTrip>>

\* saveSnapshot: metadata.json written with the digest and Date.now().
StoreWriteMeta ==
  /\ call.op = "save" /\ call.stage = "meta"
  /\ store' = [store EXCEPT ![call.proj].meta =
                               [present |-> TRUE, hash |-> call.hash, age |-> 0]]
  /\ call' = Return(call, "void")
  /\ roundTrip' = [roundTrip EXCEPT ![call.proj] =
                     [saved |-> TRUE, img |-> call.img, hash |-> call.hash,
                      inst |-> call.inst]]
  /\ UNCHANGED <<mgrVars, monVars, rtVars, supported, tasks, jobs, nOps,
                 overlap, trace, nBootRecorded, destroyed, saveOutcome, detector, apiVars>>

\* A write to OPFS is rejected: the save throws; the directory exists by
\* then.
StoreWriteFail ==
  /\ call.op = "save" /\ call.stage \in {"bin", "meta"}
  /\ store' = [store EXCEPT ![call.proj].exists = TRUE]
  /\ call' = Return(call, "thrown")
  /\ UNCHANGED <<mgrVars, monVars, rtVars, supported, tasks, jobs, nOps,
                 overlap, trace, nBootRecorded, destroyed, saveOutcome, detector, apiVars,
                 roundTrip>>

\* restoreSnapshot(projectId, container, expectedHash?): read the metadata,
\* evict on a digest mismatch or on expiry, otherwise mount the image;
\* everything that throws (no entry, no file, a mount the runtime rejects)
\* is caught and reported as false.
StoreRestore(projectId, inst, expectedHash, mountOk) ==
  /\ CallIdle
  /\ LET verdict == IF supported THEN RestoreVerdict(projectId, expectedHash)
                    ELSE "unsupported"
         c == [NewCall("restore", projectId, inst, expectedHash)
                 EXCEPT !.verdict = verdict]
     IN  /\ store' = IF Evicts(verdict) THEN deleteProject(store, projectId)
                     ELSE store
         /\ roundTrip' = IF Evicts(verdict)
                         THEN [roundTrip EXCEPT ![projectId] = NoRoundTrip]
                         ELSE roundTrip
         /\ IF verdict = "mount" /\ mountOk
            THEN /\ fs' = [fs EXCEPT ![inst] = RestoredImage(store[projectId])]
                 /\ call' = Return(c, "true")
            ELSE /\ fs' = fs
                 /\ call' = Return([c EXCEPT !.verdict =
                                      IF verdict = "mount" THEN "rejected" ELSE verdict],
                                   "false")
  /\ UNCHANGED <<mgrVars, monVars, boots, procs, readyListeners, supported,
                 tasks, jobs, nOps, overlap, trace, nBootRecorded, destroyed,
                 saveOutcome, detector, apiVars>>

\* deleteProject(projectId) called by the caller.
StoreDelete(projectId) ==
  /\ CallIdle
  /\ store' = IF supported THEN deleteProject(store, projectId) ELSE store
  /\ roundTrip' = [roundTrip EXCEPT ![projectId] = NoRoundTrip]
  /\ call' = Return(NewCall("delete", projectId, Null, NoHash), "void")
  /\ UNCHANGED <<mgrVars, monVars, rtVars, supported, tasks, jobs, nOps,
                 overlap, trace, nBootRecorded, destroyed, saveOutcome, detector, apiVars>>

\* listProjects() called by the caller.
StoreList ==
  /\ CallIdle
  /\ call' = [Return(NewCall("list", NoProject, Null, NoHash), "list")
                EXCEPT !.listed = IF supported THEN listProjects ELSE {}]
  /\ UNCHANGED <<mgrVars, monVars, rtVars, supported, store, tasks, jobs, nOps,
                 overlap, trace, nBootRecorded, destroyed, saveOutcome, detector, apiVars,
                 roundTrip>>

\* cleanup: a listed project is deleted when its metadata cannot be read or
\* is older than maxCacheAge.
Stale_OnlyExpired(metadata) == metadata.present /\ metadata.age > MaxCacheAge

Stale(metadata) == ~ metadata.present \/ metadata.age > MaxCacheAge

\* cleanup() called by the caller; it returns the number of projects it
\* deleted, 0 without OPFS.
StoreCleanup ==
  /\ CallIdle
  /\ LET cleaned == IF supported
                    THEN {p \in listProjects : Stale(getSnapshotMetadata(p))}
                    ELSE {}
     IN  /\ store' = [p \in DOMAIN store |->
                        IF p \in cleaned THEN NoEntry ELSE store[p]]
         /\ roundTrip' = [p \in DOMAIN roundTrip |->
                            IF p \in cleaned THEN NoRoundTrip ELSE roundTrip[p]]
         /\ call' = [Return(NewCall("cleanup", NoProject, Null, NoHash), "count")
                       EXCEPT !.count = Cardinality(cleaned)]
  /\ UNCHANGED <<mgrVars, monVars, rtVars, supported, tasks, jobs, nOps,
                 overlap, trace, nBootRecorded, destroyed, saveOutcome, detector, apiVars>>

NextStore ==
  \/ Age
  \/ StoreWriteBin \/ StoreWriteMeta \/ StoreWriteFail \/ StoreList
  \/ \E outcome \in {"image", "empty", "enoent", "error"} : StoreExport(outcome)
  \/ StoreCleanup
  \/ \E projectId \in Projects :
       \/ StoreDelete(projectId)
       \/ \E inst \in BootIds :
            \/ \E pkgHash \in Digests : StoreSave(projectId, inst, pkgHash)
            \/ \E expectedHash \in ExpectedHashes, mountOk \in BOOLEAN :
                 StoreRestore(projectId, inst, expectedHash, mountOk)

SpecStore == InitStore /\ [][NextStore]_vars

\* The step is a restoreSnapshot call that found readable metadata.
RestoreStep ==
  /\ call'.turn # call.turn
  /\ call'.op = "restore"
  /\ supported
  /\ getSnapshotMetadata(call'.proj).present

\* C15: restoreSnapshot with an expected digest that differs from the stored
\* one returns false, mounts nothing, and deletes the entry: the project is
\* not listed afterwards.
C15_MismatchEvicts ==
  [][(/\ RestoreStep
      /\ call'.hash # NoHash
      /\ getSnapshotMetadata(call'.proj).hash # call'.hash)
     => /\ call'.result = "false"
        /\ fs' = fs
        /\ store'[call'.proj] = NoEntry
        /\ call'.proj \notin {p \in DOMAIN store' : store'[p].exists}]_vars

\* A restore with the digest of another manifest found a fresh entry and
\* evicted it.
C15_Witness ==
  /\ call.op = "restore" /\ call.verdict = "mismatch" /\ call.result = "false"
  /\ call.proj \notin listProjects

\* C16: restoreSnapshot on an entry older than maxCacheAge returns false,
\* mounts nothing and deletes the entry, with a matching digest, with a
\* different one and with none.
C16_ExpiredEvicts ==
  [][(/\ RestoreStep
      /\ getSnapshotMetadata(call'.proj).age > MaxCacheAge)
     => /\ call'.result = "false"
        /\ fs' = fs
        /\ store'[call'.proj] = NoEntry]_vars

\* A restore without an expected digest found an expired entry and evicted
\* it.
C16_Witness ==
  /\ call.op = "restore" /\ call.verdict = "expired" /\ call.hash = NoHash
  /\ call.result = "false"
  /\ call.proj \notin listProjects

StoreProjects == {"p1", "p2"}

InitCleanup ==
  /\ container = Null
  /\ bootPromise = Null
  /\ status = "idle"
  /\ devProcess = Null
  /\ serverUrl = Null
  /\ currentTree = NoTree
  /\ currentProjectId = NoProject
  /\ timers = {}
  /\ currentMetrics = <<>>
  /\ metrics = <<>>
  /\ supported \in BOOLEAN
  /\ store = [p \in StoreProjects |-> NoEntry]
  /\ boots = [b \in BootIds |-> "live"]
  /\ fs = [b \in BootIds |-> [tree |-> TreeA1, modules |-> TreeA1.pkg]]
  /\ procs = [p \in ProcIds |-> NoProc]
  /\ readyListeners = [b \in BootIds |-> <<>>]
  /\ tasks = [t \in TaskIds |-> IdleTask]
  /\ jobs = <<>>
  /\ nOps = 0
  /\ overlap = FALSE
  /\ trace = <<>>
  /\ nBootRecorded = 0
  /\ destroyed = FALSE
  /\ saveOutcome = "none"
  /\ mon = NoMon
  /\ strip = NoStrip
  /\ detector = NoDetectorCall
  /\ call = NoCall
  /\ roundTrip = [p \in StoreProjects |-> NoRoundTrip]

NextCleanup ==
  \/ Age
  \/ StoreWriteBin \/ StoreWriteMeta \/ StoreWriteFail \/ StoreCleanup
  \/ \E outcome \in {"image", "error"} : StoreExport(outcome)
  \/ \E projectId \in StoreProjects :
       \/ StoreDelete(projectId)
       \/ StoreSave(projectId, 1, sha256Hash(PackageJsonOrEmpty(TreeA1)))

SpecCleanup == InitCleanup /\ [][NextCleanup]_vars

\* The step is taken by a saveSnapshot call before anything is written: its
\* entry, or the settling of a container.export.
SaveEntered == call'.turn # call.turn /\ call'.op = "save"

ExportSettles == call.op = "save" /\ call.stage = "export" /\ call' # call

\* C27: saveSnapshot makes at most two exports: a first export failing with
\* ENOENT is followed by exactly one more, a second failure or another
\* error makes the save throw, an empty export ends the save, and up to and
\* including a failed or empty export nothing in the store changes.
C27_ExportRetriedOnce ==
  [][/\ SaveEntered => store' = store
     /\ ExportSettles =>
          /\ store' = store
          /\ call.tries <= 1
          /\ call'.exported = "image" => call'.stage = "bin"
          /\ call'.exported = "empty" =>
               call'.stage = "done" /\ call'.result = "void"
          /\ call'.exported = "error" =>
               call'.stage = "done" /\ call'.result = "thrown"
          /\ (call'.exported = "enoent" /\ call.tries = 0) =>
               call'.stage = "export" /\ call'.tries = 1
          /\ (call'.exported = "enoent" /\ call.tries = 1) =>
               call'.stage = "done" /\ call'.result = "thrown"]_vars

\* A save over a stored snapshot failed with ENOENT twice and threw; the
\* snapshot stored before is still there.
C27_Witness ==
  /\ call.op = "save" /\ call.tries = 1 /\ call.exported = "enoent"
  /\ call.result = "thrown"
  /\ store[call.proj].hasImg /\ store[call.proj].meta.present
  /\ roundTrip[call.proj] = NoRoundTrip

\* C28: cleanup() deletes the listed projects whose metadata is missing or
\* older than maxCacheAge, leaves every other entry as it was, and returns
\* the number of projects it deleted.
C28_CleanupDeletesStale ==
  [][(call'.turn # call.turn /\ call'.op = "cleanup" /\ supported) =>
       /\ \A p \in DOMAIN store :
            store'[p] =
              IF /\ store[p].exists
                 /\ (~ store[p].meta.present \/ store[p].meta.age > MaxCacheAge)
              THEN NoEntry
              ELSE store[p]
       /\ call'.count =
            Cardinality({p \in DOMAIN store : store[p].exists /\ ~ store'[p].exists})
       /\ call'.result = "count"]_vars

\* A cleanup deleted one project and kept the other, whose metadata is
\* readable and not expired.
C28_Witness ==
  /\ call.op = "cleanup" /\ call.count = 1
  /\ \E p, q \in DOMAIN store :
       /\ store[p].exists /\ store[p].meta.present
       /\ store[p].meta.age <= MaxCacheAge
       /\ ~ store[q].exists

(***************************************************************************)
(* Properties of the snapshot save scheduled by the operations, and of     *)
(* destroy().                                                              *)
(***************************************************************************)
\* The step is the return of mountAndRun, smartStart or updateAndRefresh
\* after the server start.
ReturnsFromServe(t) ==
  /\ InFlight(t)
  /\ tasks[t].fn = "serve" /\ tasks[t].stage = "resolved"
  /\ tasks'[t].res # "none"

\* The step is the failure of a snapshot save in flight.
SaveFails == Len(jobs') < Len(jobs) /\ saveOutcome' = "failed"

\* C18: the operation returns while the save it scheduled has not started
\* its export; a save that fails changes neither an operation's result nor
\* the orchestrator's fields and emits no event; mountAndRun without a
\* projectId schedules no save and writes nothing to the store.
C18_SaveIsBestEffort ==
  [][/\ \A t \in TaskIds :
          ReturnsFromServe(t) =>
            /\ tasks'[t].res \in {"ok", "true"}
            /\ \E new \in {<<>>} \cup {<<j>> : j \in {[proj |-> p, hash |-> h, stage |-> "export", tries |-> 0] :
                                                       p \in Projects, h \in Digests \cup {sha256Hash(EmptyText)}}} :
                 jobs' = jobs \o new
            /\ store' = store
            /\ (tasks[t].op = "mountAndRun" /\ tasks[t].proj = NoProject)
                 => jobs' = jobs
     /\ SaveFails =>
          /\ tasks' = tasks
          /\ status' = status
          /\ <<container, bootPromise, devProcess, serverUrl, currentTree,
               currentProjectId>> ' = <<container, bootPromise, devProcess,
                                        serverUrl, currentTree, currentProjectId>>
          /\ trace' = trace]_vars

\* A mountAndRun with a projectId returned its url, the save it scheduled
\* failed afterwards, and the orchestrator is still ready with no error
\* event.
C18_Witness ==
  /\ saveOutcome = "failed"
  /\ status = "ready"
  /\ \E t \in TaskIds :
       /\ tasks[t].op = "mountAndRun" /\ tasks[t].proj = "p1"
       /\ tasks[t].res = "ok" /\ tasks[t].val = serverUrl
  /\ \A i \in DOMAIN trace : trace[i][1] # "error"

\* The step is a call of destroy().
DestroyStep ==
  /\ nOps' = nOps + 1
  /\ \A t \in TaskIds : tasks'[t].op # "none" => tasks'[t] = tasks[t]

\* C19: when destroy() returns, status is idle, the current tree, the
\* current project id and the server url are null, and no runtime instance
\* or boot promise is held.
C19_DestroyResetsState ==
  [][DestroyStep =>
       /\ status' = "idle"
       /\ currentTree' = NoTree
       /\ currentProjectId' = NoProject
       /\ serverUrl' = Null
       /\ container' = Null
       /\ bootPromise' = Null
       /\ devProcess' = Null]_vars

\* destroy() has just returned: the events since the last call are those of
\* a destroy(), and no boot has delivered an instance since.
JustDestroyed ==
  /\ trace # <<>> /\ trace[1] = <<"destroy">>
  /\ \A i \in 2 .. Len(trace) : trace[i][1] = "kill" \/ trace[i] = <<"status", "idle">>
  /\ container = Null

\* C20: a destroy() called right after a destroy() leaves every field of
\* the orchestrator unchanged, kills no process and emits no status-change
\* event.
C20_DestroyIdempotent ==
  [][(DestroyStep /\ JustDestroyed) =>
       /\ <<container, bootPromise, status, devProcess, serverUrl, currentTree,
            currentProjectId>> ' = <<container, bootPromise, status, devProcess,
                                     serverUrl, currentTree, currentProjectId>>
       /\ procs' = procs
       /\ trace' = << <<"destroy">> >>]_vars

\* The second of two destroy() calls made after a runtime had been booted.
C20_Witness ==
  /\ nOps = 2
  /\ trace = << <<"destroy">> >>
  /\ status = "idle" /\ container = Null
  /\ \E b \in BootIds : boots[b] = "live"

(***************************************************************************)
(* Failures, metrics and the order of a run.                               *)
(***************************************************************************)
\* The step is the rejection of WebContainer.boot().
BootFails == \E b \in BootIds : boots[b] = "pending" /\ boots'[b] = "none"

\* The step is the rejection of container.mount in mount() or update().
MountFails ==
  \E t \in TaskIds :
    /\ InFlight(t)
    /\ tasks[t].fn \in {"mount", "update"} /\ tasks[t].stage = "io"
    /\ tasks'[t].err = "mount"

\* C21: when the boot of the runtime or a mount of a file tree fails, the
\* status becomes 'error' and an error event is emitted.
C21_RuntimeFailureSetsError ==
  [][(BootFails \/ MountFails) =>
       /\ status' = "error"
       /\ \E i \in DOMAIN trace' : i > Len(trace) /\ trace'[i][1] = "error"]_vars

\* The value a metrics event carries for a duration.
Emitted(tr, field) == tr[CHOOSE i \in MetricsEvents(tr) : TRUE][2][field]

\* C22: when mountAndRun, smartStart or updateAndRefresh returns with the
\* server ready, exactly one metrics event was emitted in the run, and a
\* non-zero mount, install or server-ready duration in it belongs to a
\* mount, an install or a server start of this run.
C22_OneMetricsEventPerRun ==
  [][\A t \in TaskIds :
       (ReturnsFromServe(t) /\ tasks'[t].res \in {"ok", "true"}) =>
         /\ Cardinality(MetricsEvents(trace')) = 1
         /\ Emitted(trace', "mountTime") # 0 =>
              \E i \in DOMAIN trace' : trace'[i][1] \in {"mount", "restore"}
         /\ Emitted(trace', "installTime") # 0 =>
              \E i \in DOMAIN trace' : trace'[i][1] = "exit"
         /\ Emitted(trace', "serverReadyTime") # 0 =>
              \E i \in DOMAIN trace' : trace'[i][1] = "server-ready"]_vars

\* The status-change events of a trace, in order.
StatusSeq(tr) ==
  LET ev == SelectSeq(tr, LAMBDA e : e[1] = "status")
  IN  [i \in DOMAIN ev |-> ev[i][2]]

\* C24: a successful mountAndRun called in status idle emits the status
\* changes booting, mounting, installing, running, ready in this order and
\* no other; it spawns the install after the mount completed and the dev
\* server after the install exited with code 0.
C24_RunIsOrdered ==
  [][\A t \in TaskIds :
       (/\ ReturnsFromServe(t)
        /\ tasks[t].op = "mountAndRun"
        /\ tasks[t].status0 = "idle"
        /\ tasks'[t].res = "ok")
       => /\ StatusSeq(trace') =
               <<"booting", "mounting", "installing", "running", "ready">>
          /\ \E i, j, k, l \in DOMAIN trace' :
               /\ i < j /\ j < k /\ k < l
               /\ trace'[i][1] = "mount"
               /\ trace'[j][1] = "spawn" /\ trace'[j][2] = "install"
               /\ trace'[k] = <<"exit", trace'[j][3], 0>>
               /\ trace'[l][1] = "spawn" /\ trace'[l][2] = "dev"
               /\ \A n \in DOMAIN trace' :
                    trace'[n][1] = "spawn" => n \in {j, l}]_vars

\* The last operation failed and the caller has issued nothing since.
LastOperationFailed ==
  /\ \A t \in TaskIds : ~ InFlight(t)
  /\ \E t \in TaskIds : tasks[t].res \in {"rejected", "false"}

\* C25: after a failed operation the status is 'error' and, until the
\* caller issues a new operation, the orchestrator boots, mounts and spawns
\* nothing; no boot promise of a failed boot is kept.
C25_FailedStaysInError ==
  [][LastOperationFailed =>
       /\ status = "error"
       /\ (nOps' = nOps) =>
            /\ status' = "error"
            /\ \A b \in BootIds : boots[b] = "none" => boots'[b] = "none"
            /\ \A p \in ProcIds : procs[p].state = "none" => procs'[p].state = "none"
            /\ fs' = fs
       /\ (\E t \in TaskIds : tasks[t].err = "boot") => bootPromise = Null]_vars

(***************************************************************************)
(* destroy() issued while an operation is in flight.                       *)
(***************************************************************************)
\* A caller that does not wait for an operation before calling destroy().
InitOverlap ==
  /\ InitManager
  /\ overlap = TRUE
  /\ mon = NoMon
  /\ strip = NoStrip
  /\ detector = NoDetectorCall
  /\ call = NoCall
  /\ roundTrip = [p \in Projects |-> NoRoundTrip]

SpecOverlap == InitOverlap /\ [][Next]_vars

\* C26: when destroy() returns, no process the orchestrator spawned is
\* running, the dev server and an install in flight included.
C26_DestroyKillsEveryProcess ==
  [][DestroyStep => \A p \in ProcIds : procs'[p].state = "none"]_vars

(***************************************************************************)
(* The performance monitor called directly: record* and finishMetrics,     *)
(* with getLastMetrics read in every state.                                *)
(***************************************************************************)
MaxFinish == 2

PhaseFields == {"bootTime", "mountTime", "installTime", "serverReadyTime"}

\* The durations the callers record, one per phase.
PhaseTime == [bootTime |-> 1, mountTime |-> 2, installTime |-> 4,
              serverReadyTime |-> 8]

\* getLastMetrics returns null on an empty history.
NoMetrics == [none |-> TRUE]

InitMonitor == Init /\ supported

\* recordBootTime, recordMountTime, recordInstallTime, recordServerReadyTime
MonRecord(field, time) ==
  /\ currentMetrics' = Record(currentMetrics, field, time)
  /\ mon' = [mon EXCEPT !.since = Record(@, field, time)]
  /\ UNCHANGED <<mgrVars, timers, metrics, rtVars, supported, store, tasks,
                 jobs, nOps, overlap, trace, nBootRecorded, destroyed,
                 saveOutcome, detector, call, roundTrip, strip>>

\* recordCacheHit
MonRecordCacheHit(hit) ==
  /\ currentMetrics' = Record(currentMetrics, "cacheHit", hit)
  /\ mon' = [mon EXCEPT !.since = Record(@, "cacheHit", hit)]
  /\ UNCHANGED <<mgrVars, timers, metrics, rtVars, supported, store, tasks,
                 jobs, nOps, overlap, trace, nBootRecorded, destroyed,
                 saveOutcome, detector, call, roundTrip, strip>>

\* finishMetrics: this.currentMetrics = {}
CurrentAfterFinish_Kept(m) == m

CurrentAfterFinish(m) == <<>>

\* finishMetrics(): the assembled value is pushed on the history and
\* returned.
MonFinish ==
  /\ mon.calls < MaxFinish
  /\ metrics' = Append(metrics, finishMetrics(currentMetrics))
  /\ currentMetrics' = CurrentAfterFinish(currentMetrics)
  /\ mon' = [calls |-> mon.calls + 1, since |-> <<>>,
             returned |-> finishMetrics(currentMetrics)]
  /\ UNCHANGED <<mgrVars, timers, rtVars, supported, store, tasks,
                 jobs, nOps, overlap, trace, nBootRecorded, destroyed,
                 saveOutcome, detector, call, roundTrip, strip>>

\* PerformanceMonitor.getLastMetrics
getLastMetrics == IF Len(metrics) > 0 THEN metrics[Len(metrics)] ELSE NoMetrics

NextMonitor ==
  \/ MonFinish
  \/ \E field \in PhaseFields : MonRecord(field, PhaseTime[field])
  \/ \E hit \in BOOLEAN : MonRecordCacheHit(hit)

SpecMonitor == InitMonitor /\ [][NextMonitor]_vars

\* C29: the history of metrics stays below the number of finishMetrics()
\* calls the callers make: by the time MaxFinish calls were made, an entry
\* has been dropped.
C29_HistoryBounded == Len(metrics) < MaxFinish

\* C30: the value finishMetrics() returns has totalTime equal to the sum of
\* its four durations, holds for each phase the duration recorded since the
\* previous finishMetrics() and 0 for a phase not recorded, holds the
\* cacheHit recorded since then and false otherwise, is appended to the
\* history, and is what getLastMetrics() returns in every state up to the
\* next finishMetrics().
C30_FinishAssemblesRun ==
  [][/\ (mon'.calls = mon.calls + 1) =>
          /\ mon'.returned.totalTime =
               mon'.returned.bootTime + mon'.returned.mountTime
                 + mon'.returned.installTime + mon'.returned.serverReadyTime
          /\ \A f \in PhaseFields :
               mon'.returned[f] = Recorded(mon.since, f, 0)
          /\ mon'.returned.cacheHit = Recorded(mon.since, "cacheHit", FALSE)
          /\ metrics' = Append(metrics, mon'.returned)
     /\ (mon.calls > 0) => getLastMetrics = mon.returned]_vars

\* The second finishMetrics() returned 0 for the install recorded before the
\* first one, and it is the last entry of the history.
C30_Witness ==
  /\ mon.calls = 2
  /\ Len(metrics) = 2
  /\ metrics[1].installTime = 4
  /\ mon.returned.installTime = 0 /\ mon.returned.totalTime = 3
  /\ mon.returned.cacheHit
  /\ getLastMetrics = mon.returned

(***************************************************************************)
(* The output filter: appendOutput(data) emits stripAnsi(data).  A text is *)
(* a sequence of characters; ESC, BEL, CR and LF stand for the characters  *)
(* 27, 7, 13 and 10, "1" for a digit or semicolon and "m" for a letter.    *)
(***************************************************************************)
MaxChars == 6

Chars == {"ESC", "[", "]", "BEL", "1", "m", "CR", "LF"}

\* The classes [0-9;] and [a-zA-Z] of the pattern.
Params == {"1"}
Letters == {"m"}

\* ESC \[ [0-9;]* [a-zA-Z] matched at position i: the position of its last
\* character, 0 without a match.
CsiEnd(s, i) ==
  IF i + 2 <= Len(s) /\ s[i] = "ESC" /\ s[i + 1] = "["
  THEN LET j == CHOOSE k \in (i + 2) .. (Len(s) + 1) :
                  /\ \A n \in (i + 2) .. (k - 1) : s[n] \in Params
                  /\ k = Len(s) + 1 \/ s[k] \notin Params
       IN  IF j <= Len(s) /\ s[j] \in Letters THEN j ELSE 0
  ELSE 0

\* ESC \] [^BEL]* BEL matched at position i: the position of the first BEL
\* after the bracket, 0 without a match.
OscEnd(s, i) ==
  IF /\ i + 2 <= Len(s) /\ s[i] = "ESC" /\ s[i + 1] = "]"
     /\ \E k \in (i + 2) .. Len(s) : s[k] = "BEL"
  THEN CHOOSE k \in (i + 2) .. Len(s) :
         s[k] = "BEL" /\ \A n \in (i + 2) .. (k - 1) : s[n] # "BEL"
  ELSE 0

MatchEnd(s, i) == IF CsiEnd(s, i) # 0 THEN CsiEnd(s, i) ELSE OscEnd(s, i)

\* str.replace(ansiRegex, ''): one pass from the left, each match removed
\* and the scan resumed after it.
RECURSIVE RemoveSequences(_, _)
RemoveSequences(s, i) ==
  IF i > Len(s) THEN <<>>
  ELSE IF MatchEnd(s, i) # 0 THEN RemoveSequences(s, MatchEnd(s, i) + 1)
  ELSE <<s[i]>> \o RemoveSequences(s, i + 1)

\* .replace(/\r(?!\n)/g, '\n')
NormalizeCR(s) ==
  [i \in 1 .. Len(s) |->
     IF s[i] = "CR" /\ (i = Len(s) \/ s[i + 1] # "LF") THEN "LF" ELSE s[i]]

stripAnsi(str) == NormalizeCR(RemoveSequences(str, 1))

InitStrip == Init /\ supported

\* A process writes one more character of the chunk.
StripType(c) ==
  /\ ~ strip.done
  /\ Len(strip.raw) < MaxChars
  /\ strip' = [strip EXCEPT !.raw = Append(@, c)]
  /\ UNCHANGED <<mgrVars, monVars, rtVars, supported, store, tasks,
                 jobs, nOps, overlap, trace, nBootRecorded, destroyed,
                 saveOutcome, detector, call, roundTrip, mon>>

\* appendOutput(data): the chunk is cleaned and emitted as an output event.
AppendOutput ==
  /\ ~ strip.done
  /\ strip' = [strip EXCEPT !.out = stripAnsi(strip.raw), !.done = TRUE]
  /\ UNCHANGED <<mgrVars, monVars, rtVars, supported, store, tasks,
                 jobs, nOps, overlap, trace, nBootRecorded, destroyed,
                 saveOutcome, detector, call, roundTrip, mon>>

NextStrip == AppendOutput \/ \E c \in Chars : StripType(c)

SpecStrip == InitStrip /\ [][NextStrip]_vars

\* out is raw with characters left out and carriage returns turned into
\* line feeds, the rest in the order of raw.
RECURSIVE Embeds(_, _, _, _)
Embeds(out, i, raw, j) ==
  IF i > Len(out) THEN TRUE
  ELSE IF j > Len(raw) THEN FALSE
  ELSE IF out[i] = raw[j] \/ (out[i] = "LF" /\ raw[j] = "CR")
  THEN Embeds(out, i + 1, raw, j + 1)
  ELSE Embeds(out, i, raw, j + 1)

\* C23: the text of an output event holds no control sequence (ESC [ ...
\* letter, ESC ] ... BEL) and no carriage return that is not followed at
\* once by a line feed, and its characters are those of the raw text in
\* the same order, a carriage return at most turned into a line feed.
C23_OutputIsClean ==
  strip.done =>
    /\ \A i \in DOMAIN strip.out : MatchEnd(strip.out, i) = 0
    /\ \A i \in DOMAIN strip.out :
         strip.out[i] = "CR" => i < Len(strip.out) /\ strip.out[i + 1] = "LF"
    /\ Embeds(strip.out, 1, strip.raw, 1)

(***************************************************************************)
(* A runtime that answers: the boot and the mounts complete, the processes *)
(* are spawned, the install exits with code 0 and the dev server reports   *)
(* that it is ready.                                                       *)
(***************************************************************************)
RuntimeSignal ==
  \/ \E b \in BootIds : BootResolved(b)
  \/ \E p \in ProcIds : ServerReady(p)
  \/ \E t \in TaskIds :
       \/ MountDone(t) \/ UpdateMounted(t)
       \/ InstallSpawned(t) \/ InstallExit(t, 0)
       \/ ServeSpawned(t)
       \/ SmartCheck(t) \/ RestoreOk(t) \/ RestoreMiss(t)

NextHappy ==
  \/ PreBoot
  \/ Destroy
  \/ Age
  \/ RuntimeSignal
  \/ SaveStep
  \/ Continue
  \/ \E t \in TaskIds :
       \/ CallBoot(t)
       \/ \E files \in Trees, projectId \in OptProjects : CallMountAndRun(t, files, projectId)
       \/ \E files \in Trees, op \in {"update", "updateAndRefresh"} : CallUpdate(t, op, files)
       \/ \E files \in Trees, projectId \in Projects : CallSmartStart(t, files, projectId)

SpecHappy ==
  Init /\ [][NextHappy]_vars /\ WF_vars(Continue \/ RuntimeSignal)

C32_DigestLabelsImage ==
  jobs = <<>> =>
    \A p \in DOMAIN store :
      (store[p].hasImg /\ store[p].meta.present) =>
        store[p].meta.hash = sha256Hash(PackageJsonOrEmpty(store[p].img.tree))


\* A session that starts after a reload of the page: the orchestrator is
\* newly constructed, and the store, which outlives the page, holds the
\* snapshot an earlier session saved for TreeA1 after its install.
CacheTrees == {TreeA1, TreeA2}

SavedEntry ==
  [exists |-> TRUE, hasImg |-> TRUE,
   img |-> [tree |-> TreeA1, modules |-> TreeA1.pkg],
   meta |-> [present |-> TRUE, hash |-> sha256Hash(PackageJsonOrEmpty(TreeA1)),
             age |-> 0]]

InitCache ==
  /\ container = Null
  /\ bootPromise = Null
  /\ status = "idle"
  /\ devProcess = Null
  /\ serverUrl = Null
  /\ currentTree = NoTree
  /\ currentProjectId = NoProject
  /\ timers = {}
  /\ currentMetrics = <<>>
  /\ metrics = <<>>
  /\ supported = TRUE
  /\ store = [p \in Projects |-> SavedEntry]
  /\ boots = [b \in BootIds |-> "none"]
  /\ fs = [b \in BootIds |-> NoImage]
  /\ procs = [p \in ProcIds |-> NoProc]
  /\ readyListeners = [b \in BootIds |-> <<>>]
  /\ tasks = [t \in TaskIds |-> IdleTask]
  /\ jobs = <<>>
  /\ nOps = 0
  /\ overlap = FALSE
  /\ trace = <<>>
  /\ nBootRecorded = 0
  /\ destroyed = FALSE
  /\ saveOutcome = "none"
  /\ mon = NoMon
  /\ strip = NoStrip
  /\ detector = NoDetectorCall
  /\ call = NoCall
  /\ roundTrip = [p \in Projects |-> NoRoundTrip]

NextCache ==
  \/ PreBoot
  \/ Destroy
  \/ Age
  \/ \E b \in BootIds : BootResolved(b) \/ BootFailed(b)
  \/ \E p \in ProcIds : ServerReady(p)
  \/ \E j \in 1 .. MaxJobs : \/ JobExported(j)
                             \/ JobWriteMeta(j) \/ JobWriteFailed(j)
                             \/ \E enoent \in BOOLEAN : JobExportFailed(j, enoent)
  \/ \E t \in TaskIds :
       \/ CallBoot(t)
       \/ \E files \in CacheTrees, projectId \in OptProjects : CallMountAndRun(t, files, projectId)
       \/ \E files \in CacheTrees, op \in {"update", "updateAndRefresh"} : CallUpdate(t, op, files)
       \/ \E files \in CacheTrees, projectId \in Projects : CallSmartStart(t, files, projectId)
       \/ BootCall(t) \/ BootAwaited(t) \/ BootReturn(t)
       \/ MountGo(t) \/ MountDone(t) \/ MountFail(t)
       \/ UpdateGo(t) \/ UpdateMounted(t)
       \/ InstallGo(t) \/ InstallSpawned(t) \/ SpawnFail(t)
       \/ \E exitCode \in ExitCodes : InstallExit(t, exitCode)
       \/ ServeGo(t) \/ ServeSpawned(t) \/ OpFinish(t)
       \/ SmartCheck(t) \/ RestoreGo(t) \/ RestoreOk(t) \/ RestoreMiss(t)

SpecCache == InitCache /\ [][NextCache]_vars

\* A smartStart returns the url in this step.
SmartStartReturns(t) ==
  /\ InFlight(t)
  /\ tasks[t].op = "smartStart"
  /\ tasks'[t].res = "ok"

\* C33: when smartStart(T, P) returns, the files of the runtime are the
\* files of T, on the path through the snapshot as on the full path.
C33_RuntimeHoldsTheTree ==
  [][\A t \in TaskIds :
       SmartStartReturns(t) =>
         /\ container' # Null
         /\ fs'[container'].tree = tasks'[t].tree]_vars

\* C34: when smartStart(T, P) returns, the current tree is T, so that the
\* dependency check of a following update(T) finds no change.
C34_CurrentTreeIsTheTree ==
  [][\A t \in TaskIds :
       SmartStartReturns(t) =>
         /\ currentTree' = tasks'[t].tree
         /\ ~ hasDependencyChanged(currentTree', tasks'[t].tree)]_vars

(***************************************************************************)
(* The dev server: readiness, processes and the url.                       *)
(***************************************************************************)
ReadyEvents(tr) ==
  Cardinality({k \in DOMAIN tr : tr[k][1] = "server-ready"})

\* The runtime signals 'server-ready' for process p in this step.
ReadySignal(p) ==
  /\ procs[p].kind = "dev"
  /\ procs[p].state = "alive"
  /\ procs'[p].state = "listening"

\* C35: a 'server-ready' signal of the runtime gives one server-ready event
\* and one recorded duration, the one of the timer started for this server.
C35_OneEventPerSignal ==
  [][\A p \in ProcIds :
       ReadySignal(p) =>
         /\ ReadyEvents(trace') = ReadyEvents(trace) + 1
         /\ Recorded(currentMetrics', "serverReadyTime", 0) \in Elapsed]_vars

\* The dev-server processes that run: spawned and neither exited nor killed.
DevProcesses == {p \in ProcIds : procs[p].kind = "dev" /\ procs[p].state # "none"}

C37_ReadyHoldsUrlAndRuntime ==
  status = "ready" => (serverUrl # Null /\ container # Null)

(***************************************************************************)
(* Updates issued while an update is in flight: the panel calls update     *)
(* from an effect and does not await it.                                   *)
(***************************************************************************)
IsUpdate(task) == task.op \in {"update", "updateAndRefresh"}

\* update(files) or updateAndRefresh(files) called while an earlier update
\* has not settled.
CallUpdateDuring(t, op, files) ==
  /\ overlap
  /\ Quiet
  /\ nOps < MaxOps
  /\ FreeSlot(t)
  /\ \E u \in TaskIds : InFlight(u) /\ IsUpdate(tasks[u])
  /\ tasks' = [tasks EXCEPT ![t] = Enter(StartTask(op, files, NoProject), "update", container)]
  /\ trace' = NewTrace
  /\ nOps' = nOps + 1
  /\ UNCHANGED <<mgrVars, monVars, rtVars, supported, store, jobs, overlap,
                 nBootRecorded, saveOutcome>>
  /\ UNCHANGED <<destroyed, auxVars>>

NextRace ==
  \/ Next
  \/ \E t \in TaskIds, files \in Trees, op \in {"update", "updateAndRefresh"} :
       CallUpdateDuring(t, op, files)

SpecRace == InitOverlap /\ [][NextRace]_vars

\* An update reports success in this step.
UpdateSucceeds(t) ==
  /\ InFlight(t)
  /\ IsUpdate(tasks[t])
  /\ tasks'[t].res \in {"ok", "true"}

InstallRunning(c) ==
  \E p \in ProcIds : /\ procs[p].kind = "install" /\ procs[p].state = "alive"
                     /\ procs[p].inst = c

\* C38: of two updates that overlap, none reports success while the install
\* of the dependencies of the mounted tree runs or has failed, and when both
\* have settled the current tree is the tree in the runtime.
C38_OverlappingUpdates ==
  [][\A t \in TaskIds :
       (UpdateSucceeds(t) /\ \A u \in TaskIds : IsUpdate(tasks[u])) =>
         /\ ~ InstallRunning(tasks[t].c)'
         /\ fs'[tasks[t].c].modules = fs'[tasks[t].c].tree.pkg
         /\ (\A u \in TaskIds : ~ InFlight(u))' =>
              currentTree' = fs'[tasks[t].c].tree]_vars

(***************************************************************************)
(* The output of a process arrives in chunks; appendOutput cleans each     *)
(* chunk by itself and appends it to the output buffer.                    *)
(***************************************************************************)
MaxText == 4

\* strip.raw is the chunk being written, strip.all the chunks delivered so
\* far, strip.text the output buffer, strip.out the text of the last event.
NoChunks == [raw |-> <<>>, out |-> <<>>, done |-> FALSE, all |-> <<>>, text |-> <<>>]

InitChunks ==
  /\ InitManager
  /\ supported
  /\ overlap = FALSE
  /\ mon = NoMon
  /\ strip = NoChunks
  /\ detector = NoDetectorCall
  /\ call = NoCall
  /\ roundTrip = [p \in Projects |-> NoRoundTrip]

\* The process writes one more character into the chunk.
ChunkWrite(c) ==
  /\ Len(strip.all) + Len(strip.raw) < MaxText
  /\ strip' = [strip EXCEPT !.raw = Append(@, c)]
  /\ UNCHANGED <<mgrVars, monVars, rtVars, supported, store, tasks,
                 jobs, nOps, overlap, trace, nBootRecorded, destroyed,
                 saveOutcome, detector, call, roundTrip, mon>>

\* The stream hands the chunk to write(data): appendOutput(data) cleans it,
\* appends it to the buffer and emits it.
ChunkOutput ==
  /\ strip.raw # <<>>
  /\ strip' = [strip EXCEPT !.out = stripAnsi(strip.raw),
                            !.text = @ \o stripAnsi(strip.raw),
                            !.all = @ \o strip.raw,
                            !.raw = <<>>]
  /\ UNCHANGED <<mgrVars, monVars, rtVars, supported, store, tasks,
                 jobs, nOps, overlap, trace, nBootRecorded, destroyed,
                 saveOutcome, detector, call, roundTrip, mon>>

NextChunks == ChunkOutput \/ \E c \in Chars : ChunkWrite(c)

SpecChunks == InitChunks /\ [][NextChunks]_vars

\* C39: the texts emitted for the chunks, put together, are the cleaned
\* text of the chunks put together, however the output was cut.
C39_ChunkingIsInvisible ==
  strip.raw = <<>> => strip.text = stripAnsi(strip.all)

====
